---------------------------- MODULE Spec2Model ----------------------------
(***************************************************************************)
(* Sightline: the query interpretation and geospatial search pipeline.     *)
(*                                                                         *)
(* Texts are sequences of one-character strings, so that the regular       *)
(* expressions of src/lib/parser.ts can be run on them character by        *)
(* character.  A nullable string of the source is either such a sequence   *)
(* or Null.                                                                *)
(***************************************************************************)
EXTENDS Integers, Sequences, FiniteSets, TLC

(***************************************************************************)
(* Characters and strings (the JavaScript String methods the code uses).   *)
(***************************************************************************)
Null == <<"null">>

UpperLetters == <<"A", "B", "C", "D", "E", "F", "G", "H", "I", "J", "K", "L", "M",
                  "N", "O", "P", "Q", "R", "S", "T", "U", "V", "W", "X", "Y", "Z">>

LowerLetters == <<"a", "b", "c", "d", "e", "f", "g", "h", "i", "j", "k", "l", "m",
                  "n", "o", "p", "q", "r", "s", "t", "u", "v", "w", "x", "y", "z">>

Digits == <<"0", "1", "2", "3", "4", "5", "6", "7", "8", "9">>

Range(s) == {s[i] : i \in 1..Len(s)}

IsSpace(c) == c \in {" ", "\t"}

IsDigit(c) == c \in Range(Digits)

IsWordChar(c) == c \in Range(UpperLetters) \cup Range(LowerLetters) \cup Range(Digits) \cup {"_"}

LowerChar(c) ==
  IF c \in Range(UpperLetters)
    THEN LowerLetters[CHOOSE i \in 1..26 : UpperLetters[i] = c]
    ELSE c

toLowerCase(s) == [i \in 1..Len(s) |-> LowerChar(s[i])]

RECURSIVE trimStart(_)
trimStart(s) ==
  IF Len(s) > 0 /\ IsSpace(s[1]) THEN trimStart(Tail(s)) ELSE s

RECURSIVE trimEnd(_)
trimEnd(s) ==
  IF Len(s) > 0 /\ IsSpace(s[Len(s)]) THEN trimEnd(SubSeq(s, 1, Len(s) - 1)) ELSE s

trim(s) == trimEnd(trimStart(s))

\* String.prototype.includes
includes(s, sub) ==
  \E i \in 1..(Len(s) - Len(sub) + 1) : SubSeq(s, i, i + Len(sub) - 1) = sub

\* parseInt(digits, 10) on a run of decimal digits
DigitValue(c) == (CHOOSE i \in 1..10 : Digits[i] = c) - 1

RECURSIVE parseInt(_)
parseInt(ds) ==
  IF Len(ds) = 0 THEN 0
  ELSE 10 * parseInt(SubSeq(ds, 1, Len(ds) - 1)) + DigitValue(ds[Len(ds)])

Min(a, b) == IF a < b THEN a ELSE b

(***************************************************************************)
(* A backtracking matcher for the regular expressions of the source.  A    *)
(* pattern is a sequence of nodes; every pattern of the source carries the *)
(* i flag, so literals are written in lower case and compared with the     *)
(* lower-cased text.                                                       *)
(***************************************************************************)
Lit(s) == [k |-> "lit", s |-> s]
WordB == [k |-> "b"]
AtStart == [k |-> "start"]
AtEnd == [k |-> "end"]
SpaceC == [k |-> "cls", c |-> "space"]
DigitC == [k |-> "cls", c |-> "digit"]
NonSpaceC == [k |-> "cls", c |-> "nonspace"]
AnyC == [k |-> "cls", c |-> "any"]
OneOf(S) == [k |-> "set", cs |-> S]
CapOpen == [k |-> "open"]
CapClose == [k |-> "close"]
Alt(bs) == [k |-> "alt", bs |-> bs]
Opt(x) == [k |-> "opt", x |-> x]
Star(x) == [k |-> "star", x |-> x, lazy |-> FALSE]
StarLazy(x) == [k |-> "star", x |-> x, lazy |-> TRUE]
Plus(x) == [k |-> "plus", x |-> x, lazy |-> FALSE]
PlusLazy(x) == [k |-> "plus", x |-> x, lazy |-> TRUE]
Progress(p) == [k |-> "progress", p |-> p]

NoMatch == [ok |-> FALSE, start |-> 0, end |-> 0, cap |-> <<0, 0>>]

InClass(cls, c) ==
  CASE cls = "space" -> IsSpace(c)
    [] cls = "digit" -> IsDigit(c)
    [] cls = "nonspace" -> ~IsSpace(c)
    [] cls = "any" -> c # "\n"

AtWordBoundary(text, pos) ==
  LET before == pos > 1 /\ IsWordChar(text[pos - 1])
      after == pos <= Len(text) /\ IsWordChar(text[pos])
  IN  before # after

LitAt(text, s, pos) ==
  /\ pos + Len(s) - 1 <= Len(text)
  /\ \A j \in 1..Len(s) : LowerChar(text[pos + j - 1]) = s[j]

\* The first way, in the backtracking order of the engine, to match `nodes`
\* at position `pos` (the index of the next character to read).
RECURSIVE MatchHere(_, _, _, _)
MatchHere(text, nodes, pos, cap) ==
  IF Len(nodes) = 0 THEN [ok |-> TRUE, start |-> 0, end |-> pos, cap |-> cap]
  ELSE
    LET n == Head(nodes)
        rest == Tail(nodes)
    IN
      CASE n.k = "lit" ->
             IF LitAt(text, n.s, pos)
               THEN MatchHere(text, rest, pos + Len(n.s), cap) ELSE NoMatch
        [] n.k = "cls" ->
             IF pos <= Len(text) /\ InClass(n.c, text[pos])
               THEN MatchHere(text, rest, pos + 1, cap) ELSE NoMatch
        [] n.k = "set" ->
             IF pos <= Len(text) /\ text[pos] \in n.cs
               THEN MatchHere(text, rest, pos + 1, cap) ELSE NoMatch
        [] n.k = "b" ->
             IF AtWordBoundary(text, pos)
               THEN MatchHere(text, rest, pos, cap) ELSE NoMatch
        [] n.k = "start" ->
             IF pos = 1 THEN MatchHere(text, rest, pos, cap) ELSE NoMatch
        [] n.k = "end" ->
             IF pos = Len(text) + 1 THEN MatchHere(text, rest, pos, cap) ELSE NoMatch
        [] n.k = "open" -> MatchHere(text, rest, pos, <<pos, cap[2]>>)
        [] n.k = "close" -> MatchHere(text, rest, pos, <<cap[1], pos>>)
        [] n.k = "progress" ->
             IF pos > n.p THEN MatchHere(text, rest, pos, cap) ELSE NoMatch
        [] n.k = "alt" ->
             IF Len(n.bs) = 0 THEN NoMatch
             ELSE
               LET first == MatchHere(text, Head(n.bs) \o rest, pos, cap)
               IN  IF first.ok THEN first
                   ELSE MatchHere(text, <<Alt(Tail(n.bs))>> \o rest, pos, cap)
        [] n.k = "opt" ->
             LET taken == MatchHere(text, n.x \o rest, pos, cap)
             IN  IF taken.ok THEN taken ELSE MatchHere(text, rest, pos, cap)
        [] n.k = "star" ->
             LET again == MatchHere(text, n.x \o <<Progress(pos), n>> \o rest, pos, cap)
                 stop == MatchHere(text, rest, pos, cap)
             IN  IF n.lazy
                   THEN (IF stop.ok THEN stop ELSE again)
                   ELSE (IF again.ok THEN again ELSE stop)
        [] n.k = "plus" ->
             MatchHere(text, n.x \o <<[k |-> "star", x |-> n.x, lazy |-> n.lazy]>> \o rest,
                       pos, cap)

\* The leftmost match that starts at a position in lo..hi (the range is
\* halved to keep the evaluation shallow).
RECURSIVE SearchIn(_, _, _, _)
SearchIn(text, nodes, lo, hi) ==
  IF lo > hi THEN NoMatch
  ELSE IF lo = hi
    THEN LET m == MatchHere(text, nodes, lo, <<0, 0>>)
         IN  IF m.ok THEN [m EXCEPT !.start = lo] ELSE NoMatch
  ELSE LET mid == (lo + hi) \div 2
           left == SearchIn(text, nodes, lo, mid)
       IN  IF left.ok THEN left ELSE SearchIn(text, nodes, mid + 1, hi)

\* The leftmost match at or after position `from` (String.prototype.match
\* and RegExp.prototype.test without the g flag start at 1).
SearchFrom(text, nodes, from) == SearchIn(text, nodes, from, Len(text) + 1)

Search(text, nodes) == SearchFrom(text, nodes, 1)

test(nodes, text) == Search(text, nodes).ok

\* match[1]: the text of the capture group
Group1(text, m) == SubSeq(text, m.cap[1], m.cap[2] - 1)

\* String.prototype.replace with a pattern without the g flag
replaceFirst(text, nodes, by) ==
  LET m == Search(text, nodes)
  IN  IF m.ok
        THEN SubSeq(text, 1, m.start - 1) \o by \o SubSeq(text, m.end, Len(text))
        ELSE text

\* String.prototype.replace with a pattern with the g flag (every pattern the
\* source uses this way matches at least one character)
RECURSIVE replaceFrom(_, _, _, _)
replaceFrom(text, nodes, by, from) ==
  LET m == SearchFrom(text, nodes, from)
  IN  IF ~m.ok \/ m.end = m.start THEN SubSeq(text, from, Len(text))
      ELSE SubSeq(text, from, m.start - 1) \o by \o replaceFrom(text, nodes, by, m.end)

replaceAll(text, nodes, by) == replaceFrom(text, nodes, by, 1)

(***************************************************************************)
(* Static tables of src/lib/types.ts and the patterns of src/lib/parser.ts *)
(***************************************************************************)
TYPE_PATTERNS ==
  <<
     [pattern |-> <<WordB, Alt(<<<<Lit(<<"t", "e", "l", "e", "c", "o", "m">>)>>, <<Lit(<<"c", "o", "m", "m", "u", "n", "i", "c", "a", "t", "i", "o", "n">>)>>>>), Star(<<SpaceC>>), Alt(<<<<Lit(<<"t", "o", "w", "e", "r">>)>>, <<Lit(<<"m", "a", "s", "t">>)>>>>), Opt(<<Lit(<<"s">>)>>), WordB>>,
      type |-> <<"t", "e", "l", "e", "c", "o", "m">>],
     [pattern |-> <<WordB, Lit(<<"t", "o", "w", "e", "r">>), Opt(<<Lit(<<"s">>)>>), WordB>>,
      type |-> <<"t", "e", "l", "e", "c", "o", "m">>],
     [pattern |-> <<WordB, Lit(<<"d", "a", "t", "a">>), Star(<<SpaceC>>), Lit(<<"c", "e", "n", "t">>), Alt(<<<<Lit(<<"e", "r">>)>>, <<Lit(<<"r", "e">>)>>>>), Opt(<<Lit(<<"s">>)>>), WordB>>,
      type |-> <<"d", "a", "t", "a", "_", "c", "e", "n", "t", "e", "r">>],
     [pattern |-> <<WordB, Lit(<<"p", "o", "w", "e", "r">>), Star(<<SpaceC>>), Alt(<<<<Lit(<<"p", "l", "a", "n", "t">>)>>, <<Lit(<<"s", "t", "a", "t", "i", "o", "n">>)>>>>), Opt(<<Lit(<<"s">>)>>), WordB>>,
      type |-> <<"p", "o", "w", "e", "r", "_", "p", "l", "a", "n", "t">>],
     [pattern |-> <<WordB, Lit(<<"s", "u", "b", "s", "t", "a", "t", "i", "o", "n">>), Opt(<<Lit(<<"s">>)>>), WordB>>,
      type |-> <<"s", "u", "b", "s", "t", "a", "t", "i", "o", "n">>],
     [pattern |-> <<WordB, Lit(<<"p", "o", "r", "t">>), Opt(<<Lit(<<"s">>)>>), WordB>>,
      type |-> <<"p", "o", "r", "t">>],
     [pattern |-> <<WordB, Lit(<<"h", "a", "r", "b", "o">>), Opt(<<Lit(<<"u">>)>>), Lit(<<"r">>), Opt(<<Lit(<<"s">>)>>), WordB>>,
      type |-> <<"h", "a", "r", "b", "o", "u", "r">>],
     [pattern |-> <<WordB, Lit(<<"w", "a", "r", "e", "h", "o", "u", "s", "e">>), Opt(<<Lit(<<"s">>)>>), WordB>>,
      type |-> <<"w", "a", "r", "e", "h", "o", "u", "s", "e">>],
     [pattern |-> <<WordB, Lit(<<"a", "i", "r", "p", "o", "r", "t">>), Opt(<<Lit(<<"s">>)>>), WordB>>,
      type |-> <<"a", "i", "r", "p", "o", "r", "t">>],
     [pattern |-> <<WordB, Lit(<<"h", "e", "l", "i", "p", "a", "d">>), Opt(<<Lit(<<"s">>)>>), WordB>>,
      type |-> <<"h", "e", "l", "i", "p", "a", "d">>],
     [pattern |-> <<WordB, Lit(<<"r", "a", "i", "l">>), Opt(<<Lit(<<"w", "a", "y">>)>>), Star(<<SpaceC>>), Lit(<<"y", "a", "r", "d">>), Opt(<<Lit(<<"s">>)>>), WordB>>,
      type |-> <<"r", "a", "i", "l", "y", "a", "r", "d">>],
     [pattern |-> <<WordB, Lit(<<"r", "e", "f", "i", "n", "e", "r">>), Alt(<<<<Lit(<<"y">>)>>, <<Lit(<<"i", "e", "s">>)>>>>), WordB>>,
      type |-> <<"r", "e", "f", "i", "n", "e", "r", "y">>],
     [pattern |-> <<WordB, Lit(<<"p", "i", "p", "e", "l", "i", "n", "e">>), Opt(<<Lit(<<"s">>)>>), WordB>>,
      type |-> <<"p", "i", "p", "e", "l", "i", "n", "e">>],
     [pattern |-> <<WordB, Lit(<<"s", "o", "l", "a", "r">>), Star(<<SpaceC>>), Alt(<<<<Lit(<<"f", "a", "r", "m">>)>>, <<Lit(<<"p", "l", "a", "n", "t">>)>>, <<Lit(<<"p", "a", "n", "e", "l">>)>>>>), Opt(<<Lit(<<"s">>)>>), WordB>>,
      type |-> <<"s", "o", "l", "a", "r">>],
     [pattern |-> <<WordB, Lit(<<"w", "i", "n", "d">>), Star(<<SpaceC>>), Alt(<<<<Lit(<<"f", "a", "r", "m">>)>>, <<Lit(<<"t", "u", "r", "b", "i", "n", "e">>)>>>>), Opt(<<Lit(<<"s">>)>>), WordB>>,
      type |-> <<"w", "i", "n", "d">>],
     [pattern |-> <<WordB, Lit(<<"n", "u", "c", "l", "e", "a", "r">>), Star(<<SpaceC>>), Alt(<<<<Lit(<<"p", "l", "a", "n", "t">>)>>, <<Lit(<<"r", "e", "a", "c", "t", "o", "r">>)>>>>), Opt(<<Lit(<<"s">>)>>), WordB>>,
      type |-> <<"n", "u", "c", "l", "e", "a", "r">>],
     [pattern |-> <<WordB, Lit(<<"d", "a", "m">>), Opt(<<Lit(<<"s">>)>>), WordB>>,
      type |-> <<"d", "a", "m">>],
     [pattern |-> <<WordB, Lit(<<"g", "e", "o", "t", "h", "e", "r", "m", "a", "l">>), Star(<<SpaceC>>), Opt(<<Alt(<<<<Lit(<<"p", "l", "a", "n", "t">>)>>, <<Lit(<<"p", "o", "w", "e", "r">>)>>, <<Lit(<<"e", "n", "e", "r", "g", "y">>)>>>>)>>), WordB>>,
      type |-> <<"g", "e", "o", "t", "h", "e", "r", "m", "a", "l">>],
     [pattern |-> <<WordB, Lit(<<"b", "i", "o", "g", "a", "s">>), Star(<<SpaceC>>), Opt(<<Alt(<<<<Lit(<<"p", "l", "a", "n", "t">>)>>, <<Lit(<<"f", "a", "c", "i", "l", "i", "t", "y">>)>>>>)>>), WordB>>,
      type |-> <<"b", "i", "o", "g", "a", "s">>],
     [pattern |-> <<WordB, Lit(<<"b", "i", "o", "m", "a", "s", "s">>), Star(<<SpaceC>>), Opt(<<Alt(<<<<Lit(<<"p", "l", "a", "n", "t">>)>>, <<Lit(<<"p", "o", "w", "e", "r">>)>>, <<Lit(<<"f", "a", "c", "i", "l", "i", "t", "y">>)>>>>)>>), WordB>>,
      type |-> <<"b", "i", "o", "m", "a", "s", "s">>],
     [pattern |-> <<WordB, Lit(<<"t", "i", "d", "a", "l">>), Star(<<SpaceC>>), Opt(<<Alt(<<<<Lit(<<"p", "o", "w", "e", "r">>)>>, <<Lit(<<"p", "l", "a", "n", "t">>)>>, <<Lit(<<"e", "n", "e", "r", "g", "y">>)>>>>)>>), WordB>>,
      type |-> <<"t", "i", "d", "a", "l">>],
     [pattern |-> <<WordB, Lit(<<"g", "a", "s">>), Star(<<SpaceC>>), Opt(<<Lit(<<"p", "o", "w", "e", "r">>), Star(<<SpaceC>>)>>), Alt(<<<<Lit(<<"p", "l", "a", "n", "t">>)>>, <<Lit(<<"s", "t", "a", "t", "i", "o", "n">>)>>>>), Opt(<<Lit(<<"s">>)>>), WordB>>,
      type |-> <<"g", "a", "s", "_", "p", "o", "w", "e", "r">>],
     [pattern |-> <<WordB, Lit(<<"o", "i", "l">>), Star(<<SpaceC>>), Opt(<<Lit(<<"p", "o", "w", "e", "r">>), Star(<<SpaceC>>)>>), Alt(<<<<Lit(<<"p", "l", "a", "n", "t">>)>>, <<Lit(<<"s", "t", "a", "t", "i", "o", "n">>)>>>>), Opt(<<Lit(<<"s">>)>>), WordB>>,
      type |-> <<"o", "i", "l", "_", "p", "o", "w", "e", "r">>],
     [pattern |-> <<WordB, Lit(<<"c", "o", "a", "l">>), Star(<<SpaceC>>), Opt(<<Lit(<<"p", "o", "w", "e", "r">>), Star(<<SpaceC>>)>>), Alt(<<<<Lit(<<"p", "l", "a", "n", "t">>)>>, <<Lit(<<"s", "t", "a", "t", "i", "o", "n">>)>>>>), Opt(<<Lit(<<"s">>)>>), WordB>>,
      type |-> <<"c", "o", "a", "l">>],
     [pattern |-> <<WordB, Lit(<<"h", "y", "d", "r", "o">>), Opt(<<Lit(<<"e", "l", "e", "c", "t", "r", "i", "c">>)>>), Star(<<SpaceC>>), Opt(<<Alt(<<<<Lit(<<"p", "l", "a", "n", "t">>)>>, <<Lit(<<"p", "o", "w", "e", "r">>)>>, <<Lit(<<"d", "a", "m">>)>>>>)>>), WordB>>,
      type |-> <<"h", "y", "d", "r", "o", "e", "l", "e", "c", "t", "r", "i", "c">>],
     [pattern |-> <<WordB, Lit(<<"p", "o", "w", "e", "r">>), Star(<<SpaceC>>), Lit(<<"l", "i", "n", "e">>), Opt(<<Lit(<<"s">>)>>), WordB>>,
      type |-> <<"p", "o", "w", "e", "r", "_", "l", "i", "n", "e">>],
     [pattern |-> <<WordB, Alt(<<<<Lit(<<"e", "l", "e", "c", "t", "r", "i", "c", "i", "t", "y">>)>>, <<Lit(<<"e", "l", "e", "c", "t", "r", "i", "c">>)>>, <<Lit(<<"p", "o", "w", "e", "r">>)>>>>), Star(<<SpaceC>>), Lit(<<"p", "o", "l", "e">>), Opt(<<Lit(<<"s">>)>>), WordB>>,
      type |-> <<"p", "o", "w", "e", "r", "_", "p", "o", "l", "e">>],
     [pattern |-> <<WordB, Lit(<<"t", "r", "a", "n", "s", "f", "o", "r", "m", "e", "r">>), Opt(<<Lit(<<"s">>)>>), WordB>>,
      type |-> <<"t", "r", "a", "n", "s", "f", "o", "r", "m", "e", "r">>],
     [pattern |-> <<WordB, Lit(<<"m", "i", "l", "i", "t", "a", "r", "y">>), Star(<<SpaceC>>), Opt(<<Alt(<<<<Lit(<<"b", "a", "s", "e">>)>>, <<Lit(<<"i", "n", "s", "t", "a", "l", "l", "a", "t", "i", "o", "n">>)>>, <<Lit(<<"f", "a", "c", "i", "l", "i", "t", "y">>)>>>>)>>), WordB>>,
      type |-> <<"m", "i", "l", "i", "t", "a", "r", "y">>],
     [pattern |-> <<WordB, Lit(<<"p", "r", "i", "s", "o", "n">>), Opt(<<Lit(<<"s">>)>>), WordB>>,
      type |-> <<"p", "r", "i", "s", "o", "n">>],
     [pattern |-> <<WordB, Lit(<<"h", "o", "s", "p", "i", "t", "a", "l">>), Opt(<<Lit(<<"s">>)>>), WordB>>,
      type |-> <<"h", "o", "s", "p", "i", "t", "a", "l">>],
     [pattern |-> <<WordB, Lit(<<"e", "m", "b", "a", "s", "s">>), Alt(<<<<Lit(<<"y">>)>>, <<Lit(<<"i", "e", "s">>)>>>>), WordB>>,
      type |-> <<"e", "m", "b", "a", "s", "s", "y">>],
     [pattern |-> <<WordB, Lit(<<"f", "a", "c", "t", "o", "r">>), Alt(<<<<Lit(<<"y">>)>>, <<Lit(<<"i", "e", "s">>)>>>>), WordB>>,
      type |-> <<"f", "a", "c", "t", "o", "r", "y">>],
     [pattern |-> <<WordB, Lit(<<"i", "n", "d", "u", "s", "t", "r", "i", "a", "l">>), Star(<<SpaceC>>), Alt(<<<<Lit(<<"z", "o", "n", "e">>)>>, <<Lit(<<"a", "r", "e", "a">>)>>, <<Lit(<<"p", "a", "r", "k">>)>>>>), Opt(<<Lit(<<"s">>)>>), WordB>>,
      type |-> <<"i", "n", "d", "u", "s", "t", "r", "i", "a", "l">>],
     [pattern |-> <<WordB, Lit(<<"s", "c", "h", "o", "o", "l">>), Opt(<<Lit(<<"s">>)>>), WordB>>,
      type |-> <<"s", "c", "h", "o", "o", "l">>],
     [pattern |-> <<WordB, Lit(<<"u", "n", "i", "v", "e", "r", "s", "i", "t">>), Alt(<<<<Lit(<<"y">>)>>, <<Lit(<<"i", "e", "s">>)>>>>), WordB>>,
      type |-> <<"u", "n", "i", "v", "e", "r", "s", "i", "t", "y">>],
     [pattern |-> <<WordB, Lit(<<"c", "o", "l", "l", "e", "g", "e">>), Opt(<<Lit(<<"s">>)>>), WordB>>,
      type |-> <<"c", "o", "l", "l", "e", "g", "e">>],
     [pattern |-> <<WordB, Lit(<<"s", "t", "a", "d", "i", "u", "m">>), Opt(<<Lit(<<"s">>)>>), WordB>>,
      type |-> <<"s", "t", "a", "d", "i", "u", "m">>],
     [pattern |-> <<WordB, Lit(<<"f", "i", "r", "e">>), Star(<<SpaceC>>), Lit(<<"s", "t", "a", "t", "i", "o", "n">>), Opt(<<Lit(<<"s">>)>>), WordB>>,
      type |-> <<"f", "i", "r", "e", "_", "s", "t", "a", "t", "i", "o", "n">>],
     [pattern |-> <<WordB, Lit(<<"p", "o", "l", "i", "c", "e">>), Star(<<SpaceC>>), Opt(<<Lit(<<"s", "t", "a", "t", "i", "o", "n">>)>>), Opt(<<Lit(<<"s">>)>>), WordB>>,
      type |-> <<"p", "o", "l", "i", "c", "e">>],
     [pattern |-> <<WordB, Lit(<<"c", "o", "u", "r", "t", "h", "o", "u", "s">>), Opt(<<Lit(<<"e">>)>>), Opt(<<Lit(<<"s">>)>>), WordB>>,
      type |-> <<"c", "o", "u", "r", "t", "h", "o", "u", "s", "e">>],
     [pattern |-> <<WordB, Lit(<<"b", "a", "n", "k">>), Opt(<<Lit(<<"s">>)>>), WordB>>,
      type |-> <<"b", "a", "n", "k">>],
     [pattern |-> <<WordB, Lit(<<"a", "t", "m">>), Opt(<<Lit(<<"s">>)>>), WordB>>,
      type |-> <<"a", "t", "m">>],
     [pattern |-> <<WordB, Alt(<<<<Lit(<<"f", "u", "e", "l">>)>>, <<Lit(<<"g", "a", "s">>)>>, <<Lit(<<"p", "e", "t", "r", "o", "l">>)>>>>), Star(<<SpaceC>>), Lit(<<"s", "t", "a", "t", "i", "o", "n">>), Opt(<<Lit(<<"s">>)>>), WordB>>,
      type |-> <<"f", "u", "e", "l">>],
     [pattern |-> <<WordB, Opt(<<Lit(<<"e", "v">>), Star(<<SpaceC>>)>>), Lit(<<"c", "h", "a", "r", "g", "i", "n", "g">>), Star(<<SpaceC>>), Lit(<<"s", "t", "a", "t", "i", "o", "n">>), Opt(<<Lit(<<"s">>)>>), WordB>>,
      type |-> <<"c", "h", "a", "r", "g", "i", "n", "g", "_", "s", "t", "a", "t", "i", "o", "n">>],
     [pattern |-> <<WordB, Lit(<<"w", "a", "t", "e", "r">>), Star(<<SpaceC>>), Lit(<<"t", "o", "w", "e", "r">>), Opt(<<Lit(<<"s">>)>>), WordB>>,
      type |-> <<"w", "a", "t", "e", "r", "_", "t", "o", "w", "e", "r">>],
     [pattern |-> <<WordB, Lit(<<"w", "a", "t", "e", "r">>), Star(<<SpaceC>>), Alt(<<<<Lit(<<"t", "r", "e", "a", "t", "m", "e", "n", "t">>)>>, <<Lit(<<"w", "o", "r", "k", "s">>)>>>>), WordB>>,
      type |-> <<"w", "a", "t", "e", "r", "_", "t", "r", "e", "a", "t", "m", "e", "n", "t">>],
     [pattern |-> <<WordB, Alt(<<<<Lit(<<"w", "a", "s", "t", "e", "w", "a", "t", "e", "r">>)>>, <<Lit(<<"s", "e", "w", "a", "g", "e">>)>>>>), Star(<<SpaceC>>), Opt(<<Alt(<<<<Lit(<<"p", "l", "a", "n", "t">>)>>, <<Lit(<<"t", "r", "e", "a", "t", "m", "e", "n", "t">>)>>>>)>>), WordB>>,
      type |-> <<"w", "a", "s", "t", "e", "w", "a", "t", "e", "r">>],
     [pattern |-> <<WordB, Lit(<<"l", "a", "n", "d", "f", "i", "l", "l">>), Opt(<<Lit(<<"s">>)>>), WordB>>,
      type |-> <<"l", "a", "n", "d", "f", "i", "l", "l">>],
     [pattern |-> <<WordB, Alt(<<<<Lit(<<"q", "u", "a", "r", "r">>), Alt(<<<<Lit(<<"y">>)>>, <<Lit(<<"i", "e", "s">>)>>>>)>>, <<Lit(<<"m", "i", "n", "e">>), Opt(<<Lit(<<"s">>)>>)>>>>), WordB>>,
      type |-> <<"q", "u", "a", "r", "r", "y">>],
     [pattern |-> <<WordB, Lit(<<"o", "i", "l">>), Star(<<SpaceC>>), Lit(<<"w", "e", "l", "l">>), Opt(<<Lit(<<"s">>)>>), WordB>>,
      type |-> <<"o", "i", "l", "_", "w", "e", "l", "l">>],
     [pattern |-> <<WordB, Lit(<<"g", "a", "s">>), Star(<<SpaceC>>), Lit(<<"w", "e", "l", "l">>), Opt(<<Lit(<<"s">>)>>), WordB>>,
      type |-> <<"g", "a", "s", "_", "w", "e", "l", "l">>],
     [pattern |-> <<WordB, Lit(<<"s", "t", "o", "r", "a", "g", "e">>), Star(<<SpaceC>>), Lit(<<"t", "a", "n", "k">>), Opt(<<Lit(<<"s">>)>>), WordB>>,
      type |-> <<"s", "t", "o", "r", "a", "g", "e", "_", "t", "a", "n", "k">>],
     [pattern |-> <<WordB, Lit(<<"s", "i", "l", "o">>), Opt(<<Lit(<<"s">>)>>), WordB>>,
      type |-> <<"s", "i", "l", "o">>],
     [pattern |-> <<WordB, Lit(<<"c", "h", "i", "m", "n", "e">>), Alt(<<<<Lit(<<"y">>)>>, <<Lit(<<"y", "s">>)>>>>), WordB>>,
      type |-> <<"c", "h", "i", "m", "n", "e", "y">>],
     [pattern |-> <<WordB, Lit(<<"c", "o", "o", "l", "i", "n", "g">>), Star(<<SpaceC>>), Lit(<<"t", "o", "w", "e", "r">>), Opt(<<Lit(<<"s">>)>>), WordB>>,
      type |-> <<"c", "o", "o", "l", "i", "n", "g", "_", "t", "o", "w", "e", "r">>],
     [pattern |-> <<WordB, Lit(<<"l", "i", "g", "h", "t", "h", "o", "u", "s", "e">>), Opt(<<Lit(<<"s">>)>>), WordB>>,
      type |-> <<"l", "i", "g", "h", "t", "h", "o", "u", "s", "e">>],
     [pattern |-> <<WordB, Lit(<<"r", "a", "d", "a", "r">>), Opt(<<Lit(<<"s">>)>>), WordB>>,
      type |-> <<"r", "a", "d", "a", "r">>],
     [pattern |-> <<WordB, Lit(<<"a", "n", "t", "e", "n", "n", "a">>), Opt(<<Lit(<<"s">>)>>), WordB>>,
      type |-> <<"a", "n", "t", "e", "n", "n", "a">>],
     [pattern |-> <<WordB, Lit(<<"m", "a", "s", "t">>), Opt(<<Lit(<<"s">>)>>), WordB>>,
      type |-> <<"m", "a", "s", "t">>],
     [pattern |-> <<WordB, Lit(<<"b", "r", "i", "d", "g", "e">>), Opt(<<Lit(<<"s">>)>>), WordB>>,
      type |-> <<"b", "r", "i", "d", "g", "e">>],
     [pattern |-> <<WordB, Lit(<<"t", "u", "n", "n", "e", "l">>), Opt(<<Lit(<<"s">>)>>), WordB>>,
      type |-> <<"t", "u", "n", "n", "e", "l">>],
     [pattern |-> <<WordB, Lit(<<"f", "e", "r", "r">>), Alt(<<<<Lit(<<"y">>)>>, <<Lit(<<"i", "e", "s">>)>>>>), Star(<<SpaceC>>), Lit(<<"t", "e", "r", "m", "i", "n", "a", "l">>), Opt(<<Lit(<<"s">>)>>), WordB>>,
      type |-> <<"f", "e", "r", "r", "y", "_", "t", "e", "r", "m", "i", "n", "a", "l">>],
     [pattern |-> <<WordB, Lit(<<"b", "u", "s">>), Star(<<SpaceC>>), Lit(<<"s", "t", "a", "t", "i", "o", "n">>), Opt(<<Lit(<<"s">>)>>), WordB>>,
      type |-> <<"b", "u", "s", "_", "s", "t", "a", "t", "i", "o", "n">>],
     [pattern |-> <<WordB, Alt(<<<<Lit(<<"t", "r", "a", "i", "n">>)>>, <<Lit(<<"r", "a", "i", "l", "w", "a", "y">>)>>>>), Star(<<SpaceC>>), Lit(<<"s", "t", "a", "t", "i", "o", "n">>), Opt(<<Lit(<<"s">>)>>), WordB>>,
      type |-> <<"t", "r", "a", "i", "n", "_", "s", "t", "a", "t", "i", "o", "n">>],
     [pattern |-> <<WordB, Lit(<<"m", "e", "t", "r", "o">>), Star(<<SpaceC>>), Opt(<<Lit(<<"s", "t", "a", "t", "i", "o", "n">>)>>), Opt(<<Lit(<<"s">>)>>), WordB>>,
      type |-> <<"m", "e", "t", "r", "o">>],
     [pattern |-> <<WordB, Lit(<<"s", "u", "b", "w", "a", "y">>), Star(<<SpaceC>>), Opt(<<Lit(<<"s", "t", "a", "t", "i", "o", "n">>)>>), Opt(<<Lit(<<"s">>)>>), WordB>>,
      type |-> <<"m", "e", "t", "r", "o">>],
     [pattern |-> <<WordB, Lit(<<"p", "a", "r", "k", "i", "n", "g">>), WordB>>,
      type |-> <<"p", "a", "r", "k", "i", "n", "g">>],
     [pattern |-> <<WordB, Lit(<<"c", "e", "m", "e", "t", "a", "r">>), Alt(<<<<Lit(<<"y">>)>>, <<Lit(<<"i", "e", "s">>)>>>>), WordB>>,
      type |-> <<"c", "e", "m", "e", "t", "e", "r", "y">>],
     [pattern |-> <<WordB, Lit(<<"m", "o", "s", "q", "u", "e">>), Opt(<<Lit(<<"s">>)>>), WordB>>,
      type |-> <<"m", "o", "s", "q", "u", "e">>],
     [pattern |-> <<WordB, Lit(<<"c", "h", "u", "r", "c", "h">>), Opt(<<Lit(<<"e">>)>>), Opt(<<Lit(<<"s">>)>>), WordB>>,
      type |-> <<"c", "h", "u", "r", "c", "h">>],
     [pattern |-> <<WordB, Lit(<<"t", "e", "m", "p", "l", "e">>), Opt(<<Lit(<<"s">>)>>), WordB>>,
      type |-> <<"t", "e", "m", "p", "l", "e">>],
     [pattern |-> <<WordB, Lit(<<"s", "y", "n", "a", "g", "o", "g", "u", "e">>), Opt(<<Lit(<<"s">>)>>), WordB>>,
      type |-> <<"s", "y", "n", "a", "g", "o", "g", "u", "e">>],
     [pattern |-> <<WordB, Lit(<<"l", "i", "b", "r", "a", "r">>), Opt(<<Lit(<<"i">>)>>), Alt(<<<<Lit(<<"y">>)>>, <<Lit(<<"e", "s">>)>>>>), WordB>>,
      type |-> <<"l", "i", "b", "r", "a", "r", "y">>],
     [pattern |-> <<WordB, Lit(<<"m", "u", "s", "e", "u", "m">>), Opt(<<Lit(<<"s">>)>>), WordB>>,
      type |-> <<"m", "u", "s", "e", "u", "m">>],
     [pattern |-> <<WordB, Lit(<<"t", "h", "e", "a", "t">>), Alt(<<<<Lit(<<"e", "r">>)>>, <<Lit(<<"r", "e">>)>>>>), Opt(<<Lit(<<"s">>)>>), WordB>>,
      type |-> <<"t", "h", "e", "a", "t", "r", "e">>],
     [pattern |-> <<WordB, Lit(<<"c", "i", "n", "e", "m", "a">>), Opt(<<Lit(<<"s">>)>>), WordB>>,
      type |-> <<"c", "i", "n", "e", "m", "a">>],
     [pattern |-> <<WordB, Lit(<<"h", "o", "t", "e", "l">>), Opt(<<Lit(<<"s">>)>>), WordB>>,
      type |-> <<"h", "o", "t", "e", "l">>],
     [pattern |-> <<WordB, Lit(<<"p", "h", "a", "r", "m", "a", "c">>), Opt(<<Lit(<<"i">>)>>), Alt(<<<<Lit(<<"y">>)>>, <<Lit(<<"e", "s">>)>>>>), WordB>>,
      type |-> <<"p", "h", "a", "r", "m", "a", "c", "y">>],
     [pattern |-> <<WordB, Lit(<<"c", "l", "i", "n", "i", "c">>), Opt(<<Lit(<<"s">>)>>), WordB>>,
      type |-> <<"c", "l", "i", "n", "i", "c">>],
     [pattern |-> <<WordB, Lit(<<"d", "e", "n", "t", "i", "s", "t">>), Opt(<<Lit(<<"s">>)>>), WordB>>,
      type |-> <<"d", "e", "n", "t", "i", "s", "t">>],
     [pattern |-> <<WordB, Lit(<<"v", "e", "t">>), Opt(<<Lit(<<"s">>)>>), WordB>>,
      type |-> <<"v", "e", "t", "e", "r", "i", "n", "a", "r", "y">>],
     [pattern |-> <<WordB, Lit(<<"v", "e", "t", "e", "r", "i", "n", "a", "r">>), Alt(<<<<Lit(<<"y">>)>>, <<Lit(<<"i", "e", "s">>)>>>>), WordB>>,
      type |-> <<"v", "e", "t", "e", "r", "i", "n", "a", "r", "y">>],
     [pattern |-> <<WordB, Lit(<<"p", "o", "s", "t">>), Star(<<SpaceC>>), Lit(<<"o", "f", "f", "i", "c">>), Alt(<<<<Lit(<<"e">>)>>, <<Lit(<<"e", "s">>)>>>>), WordB>>,
      type |-> <<"p", "o", "s", "t", "_", "o", "f", "f", "i", "c", "e">>],
     [pattern |-> <<WordB, Lit(<<"r", "e", "c", "y", "c", "l", "i", "n", "g">>), Star(<<SpaceC>>), Opt(<<Lit(<<"c", "e", "n", "t">>), Alt(<<<<Lit(<<"e", "r">>)>>, <<Lit(<<"r", "e">>)>>>>)>>), Opt(<<Lit(<<"s">>)>>), WordB>>,
      type |-> <<"r", "e", "c", "y", "c", "l", "i", "n", "g">>],
     [pattern |-> <<WordB, Lit(<<"o", "b", "s", "e", "r", "v", "a", "t", "o", "r">>), Alt(<<<<Lit(<<"y">>)>>, <<Lit(<<"i", "e", "s">>)>>>>), WordB>>,
      type |-> <<"o", "b", "s", "e", "r", "v", "a", "t", "o", "r", "y">>],
     [pattern |-> <<WordB, Lit(<<"c", "r", "a", "n", "e">>), Opt(<<Lit(<<"s">>)>>), WordB>>,
      type |-> <<"c", "r", "a", "n", "e">>],
     [pattern |-> <<WordB, Lit(<<"w", "i", "n", "d", "m", "i", "l", "l">>), Opt(<<Lit(<<"s">>)>>), WordB>>,
      type |-> <<"w", "i", "n", "d", "m", "i", "l", "l">>],
     [pattern |-> <<WordB, Lit(<<"w", "a", "t", "e", "r", "m", "i", "l", "l">>), Opt(<<Lit(<<"s">>)>>), WordB>>,
      type |-> <<"w", "a", "t", "e", "r", "m", "i", "l", "l">>],
     [pattern |-> <<WordB, Lit(<<"g", "a", "s", "o", "m", "e", "t", "e", "r">>), Opt(<<Lit(<<"s">>)>>), WordB>>,
      type |-> <<"g", "a", "s", "o", "m", "e", "t", "e", "r">>],
     [pattern |-> <<WordB, Lit(<<"b", "u", "n", "k", "e", "r">>), Opt(<<Lit(<<"s">>)>>), WordB>>,
      type |-> <<"b", "u", "n", "k", "e", "r">>],
     [pattern |-> <<WordB, Lit(<<"b", "a", "r", "r", "a", "c", "k", "s">>), WordB>>,
      type |-> <<"b", "a", "r", "r", "a", "c", "k", "s">>],
     [pattern |-> <<WordB, Lit(<<"a", "i", "r", "f", "i", "e", "l", "d">>), Opt(<<Lit(<<"s">>)>>), WordB>>,
      type |-> <<"a", "i", "r", "f", "i", "e", "l", "d">>],
     [pattern |-> <<WordB, Lit(<<"n", "a", "v", "a", "l">>), Star(<<SpaceC>>), Lit(<<"b", "a", "s", "e">>), Opt(<<Lit(<<"s">>)>>), WordB>>,
      type |-> <<"n", "a", "v", "a", "l", "_", "b", "a", "s", "e">>],
     [pattern |-> <<WordB, Alt(<<<<Lit(<<"f", "i", "r", "i", "n", "g">>)>>, <<Lit(<<"s", "h", "o", "o", "t", "i", "n", "g">>)>>>>), Star(<<SpaceC>>), Lit(<<"r", "a", "n", "g", "e">>), Opt(<<Lit(<<"s">>)>>), WordB>>,
      type |-> <<"r", "a", "n", "g", "e">>],
     [pattern |-> <<WordB, Lit(<<"c", "h", "e", "c", "k", "p", "o", "i", "n", "t">>), Opt(<<Lit(<<"s">>)>>), WordB>>,
      type |-> <<"c", "h", "e", "c", "k", "p", "o", "i", "n", "t">>],
     [pattern |-> <<WordB, Lit(<<"b", "o", "r", "d", "e", "r">>), Star(<<SpaceC>>), Alt(<<<<Lit(<<"c", "o", "n", "t", "r", "o", "l">>)>>, <<Lit(<<"c", "r", "o", "s", "s", "i", "n", "g">>)>>>>), Opt(<<Lit(<<"s">>)>>), WordB>>,
      type |-> <<"b", "o", "r", "d", "e", "r", "_", "c", "o", "n", "t", "r", "o", "l">>],
     [pattern |-> <<WordB, Lit(<<"a", "m", "b", "u", "l", "a", "n", "c", "e">>), Star(<<SpaceC>>), Alt(<<<<Lit(<<"s", "t", "a", "t", "i", "o", "n">>)>>, <<Lit(<<"d", "e", "p", "o", "t">>)>>, <<Lit(<<"b", "a", "s", "e">>)>>>>), Opt(<<Lit(<<"s">>)>>), WordB>>,
      type |-> <<"a", "m", "b", "u", "l", "a", "n", "c", "e", "_", "s", "t", "a", "t", "i", "o", "n">>],
     [pattern |-> <<WordB, Lit(<<"r", "e", "s", "c", "u", "e">>), Star(<<SpaceC>>), Alt(<<<<Lit(<<"s", "t", "a", "t", "i", "o", "n">>)>>, <<Lit(<<"t", "e", "a", "m">>)>>, <<Lit(<<"b", "a", "s", "e">>)>>>>), Opt(<<Lit(<<"s">>)>>), WordB>>,
      type |-> <<"r", "e", "s", "c", "u", "e", "_", "s", "t", "a", "t", "i", "o", "n">>],
     [pattern |-> <<WordB, Lit(<<"l", "i", "f", "e", "g", "u", "a", "r", "d">>), Star(<<SpaceC>>), Alt(<<<<Lit(<<"s", "t", "a", "t", "i", "o", "n">>)>>, <<Lit(<<"t", "o", "w", "e", "r">>)>>, <<Lit(<<"p", "o", "s", "t">>)>>>>), Opt(<<Lit(<<"s">>)>>), WordB>>,
      type |-> <<"l", "i", "f", "e", "g", "u", "a", "r", "d">>],
     [pattern |-> <<WordB, Lit(<<"f", "i", "r", "e">>), Star(<<SpaceC>>), Lit(<<"h", "y", "d", "r", "a", "n", "t">>), Opt(<<Lit(<<"s">>)>>), WordB>>,
      type |-> <<"f", "i", "r", "e", "_", "h", "y", "d", "r", "a", "n", "t">>],
     [pattern |-> <<WordB, Alt(<<<<Lit(<<"e", "m", "e", "r", "g", "e", "n", "c", "y">>)>>, <<Lit(<<"s", "o", "s">>)>>>>), Star(<<SpaceC>>), Alt(<<<<Lit(<<"p", "h", "o", "n", "e">>)>>, <<Lit(<<"c", "a", "l", "l">>), Star(<<SpaceC>>), Lit(<<"b", "o", "x">>)>>>>), Opt(<<Lit(<<"s">>)>>), WordB>>,
      type |-> <<"e", "m", "e", "r", "g", "e", "n", "c", "y", "_", "p", "h", "o", "n", "e">>],
     [pattern |-> <<WordB, Lit(<<"c", "o", "a", "s", "t">>), Star(<<SpaceC>>), Lit(<<"g", "u", "a", "r", "d">>), Opt(<<Lit(<<"s">>)>>), Star(<<SpaceC>>), Opt(<<Alt(<<<<Lit(<<"s", "t", "a", "t", "i", "o", "n">>)>>, <<Lit(<<"b", "a", "s", "e">>)>>>>)>>), WordB>>,
      type |-> <<"c", "o", "a", "s", "t", "_", "g", "u", "a", "r", "d">>],
     [pattern |-> <<WordB, Lit(<<"t", "a", "x", "i", "w", "a", "y">>), Opt(<<Lit(<<"s">>)>>), WordB>>,
      type |-> <<"t", "a", "x", "i", "w", "a", "y">>],
     [pattern |-> <<WordB, Lit(<<"r", "u", "n", "w", "a", "y">>), Opt(<<Lit(<<"s">>)>>), WordB>>,
      type |-> <<"r", "u", "n", "w", "a", "y">>],
     [pattern |-> <<WordB, Opt(<<Alt(<<<<Lit(<<"a", "i", "r", "p", "o", "r", "t">>)>>, <<Lit(<<"a", "i", "r", "l", "i", "n", "e">>)>>>>)>>), Star(<<SpaceC>>), Lit(<<"t", "e", "r", "m", "i", "n", "a", "l">>), Opt(<<Lit(<<"s">>)>>), WordB>>,
      type |-> <<"t", "e", "r", "m", "i", "n", "a", "l">>],
     [pattern |-> <<WordB, Lit(<<"h", "a", "n", "g", "a", "r">>), Opt(<<Lit(<<"s">>)>>), WordB>>,
      type |-> <<"h", "a", "n", "g", "a", "r">>],
     [pattern |-> <<WordB, Alt(<<<<Lit(<<"a", "t", "c">>)>>, <<Lit(<<"a", "i", "r">>), Star(<<SpaceC>>), Lit(<<"t", "r", "a", "f", "f", "i", "c">>), Star(<<SpaceC>>), Lit(<<"c", "o", "n", "t", "r", "o", "l">>)>>>>), Star(<<SpaceC>>), Opt(<<Lit(<<"t", "o", "w", "e", "r">>)>>), Opt(<<Lit(<<"s">>)>>), WordB>>,
      type |-> <<"a", "t", "c", "_", "t", "o", "w", "e", "r">>],
     [pattern |-> <<WordB, Lit(<<"d", "o", "c", "k">>), Opt(<<Lit(<<"s">>)>>), WordB>>,
      type |-> <<"d", "o", "c", "k">>],
     [pattern |-> <<WordB, Lit(<<"m", "a", "r", "i", "n", "a">>), Opt(<<Lit(<<"s">>)>>), WordB>>,
      type |-> <<"m", "a", "r", "i", "n", "a">>],
     [pattern |-> <<WordB, Lit(<<"s", "h", "i", "p", "y", "a", "r", "d">>), Opt(<<Lit(<<"s">>)>>), WordB>>,
      type |-> <<"s", "h", "i", "p", "y", "a", "r", "d">>],
     [pattern |-> <<WordB, Lit(<<"s", "e", "a", "p", "o", "r", "t">>), Opt(<<Lit(<<"s">>)>>), WordB>>,
      type |-> <<"s", "e", "a", "p", "o", "r", "t">>],
     [pattern |-> <<WordB, Lit(<<"t", "r", "a", "m">>), Star(<<SpaceC>>), Alt(<<<<Lit(<<"s", "t", "o", "p">>)>>, <<Lit(<<"s", "t", "a", "t", "i", "o", "n">>)>>>>), Opt(<<Lit(<<"s">>)>>), WordB>>,
      type |-> <<"t", "r", "a", "m", "_", "s", "t", "o", "p">>],
     [pattern |-> <<WordB, Alt(<<<<Lit(<<"r", "a", "i", "l", "w", "a", "y">>)>>, <<Lit(<<"t", "r", "a", "i", "n">>)>>>>), Star(<<SpaceC>>), Lit(<<"h", "a", "l", "t">>), Opt(<<Lit(<<"s">>)>>), WordB>>,
      type |-> <<"h", "a", "l", "t">>],
     [pattern |-> <<WordB, Lit(<<"l", "e", "v", "e", "l">>), Star(<<SpaceC>>), Lit(<<"c", "r", "o", "s", "s", "i", "n", "g">>), Opt(<<Lit(<<"s">>)>>), WordB>>,
      type |-> <<"l", "e", "v", "e", "l", "_", "c", "r", "o", "s", "s", "i", "n", "g">>],
     [pattern |-> <<WordB, Alt(<<<<Lit(<<"r", "a", "i", "l", "r", "o", "a", "d">>)>>, <<Lit(<<"r", "a", "i", "l", "w", "a", "y">>)>>>>), Star(<<SpaceC>>), Lit(<<"c", "r", "o", "s", "s", "i", "n", "g">>), Opt(<<Lit(<<"s">>)>>), WordB>>,
      type |-> <<"l", "e", "v", "e", "l", "_", "c", "r", "o", "s", "s", "i", "n", "g">>],
     [pattern |-> <<WordB, Lit(<<"t", "o", "l", "l">>), Star(<<SpaceC>>), Alt(<<<<Lit(<<"b", "o", "o", "t", "h">>)>>, <<Lit(<<"p", "l", "a", "z", "a">>)>>, <<Lit(<<"s", "t", "a", "t", "i", "o", "n">>)>>>>), Opt(<<Lit(<<"s">>)>>), WordB>>,
      type |-> <<"t", "o", "l", "l", "_", "b", "o", "o", "t", "h">>],
     [pattern |-> <<WordB, Lit(<<"w", "e", "i", "g", "h">>), Star(<<SpaceC>>), Alt(<<<<Lit(<<"s", "t", "a", "t", "i", "o", "n">>)>>, <<Lit(<<"b", "r", "i", "d", "g", "e">>)>>>>), Opt(<<Lit(<<"s">>)>>), WordB>>,
      type |-> <<"w", "e", "i", "g", "h", "_", "s", "t", "a", "t", "i", "o", "n">>],
     [pattern |-> <<WordB, Lit(<<"r", "e", "s", "t">>), Star(<<SpaceC>>), Alt(<<<<Lit(<<"a", "r", "e", "a">>)>>, <<Lit(<<"s", "t", "o", "p">>)>>>>), Opt(<<Lit(<<"s">>)>>), WordB>>,
      type |-> <<"r", "e", "s", "t", "_", "a", "r", "e", "a">>],
     [pattern |-> <<WordB, Lit(<<"s", "e", "r", "v", "i", "c", "e">>), Star(<<SpaceC>>), Alt(<<<<Lit(<<"a", "r", "e", "a">>)>>, <<Lit(<<"s", "t", "a", "t", "i", "o", "n">>)>>, <<Lit(<<"p", "l", "a", "z", "a">>)>>>>), Opt(<<Lit(<<"s">>)>>), WordB>>,
      type |-> <<"s", "e", "r", "v", "i", "c", "e", "_", "a", "r", "e", "a">>]
  >>

ASSET_TYPE_KEYS ==
  {
     <<"t", "e", "l", "e", "c", "o", "m">>,
     <<"t", "o", "w", "e", "r">>,
     <<"d", "a", "t", "a", "_", "c", "e", "n", "t", "e", "r">>,
     <<"d", "a", "t", "a", "c", "e", "n", "t", "e", "r">>,
     <<"p", "o", "w", "e", "r", "_", "p", "l", "a", "n", "t">>,
     <<"p", "o", "w", "e", "r", "p", "l", "a", "n", "t">>,
     <<"s", "u", "b", "s", "t", "a", "t", "i", "o", "n">>,
     <<"p", "o", "r", "t">>,
     <<"h", "a", "r", "b", "o", "u", "r">>,
     <<"w", "a", "r", "e", "h", "o", "u", "s", "e">>,
     <<"a", "i", "r", "p", "o", "r", "t">>,
     <<"h", "e", "l", "i", "p", "a", "d">>,
     <<"r", "a", "i", "l", "y", "a", "r", "d">>,
     <<"r", "a", "i", "l", "_", "y", "a", "r", "d">>,
     <<"r", "e", "f", "i", "n", "e", "r", "y">>,
     <<"p", "i", "p", "e", "l", "i", "n", "e">>,
     <<"s", "o", "l", "a", "r">>,
     <<"w", "i", "n", "d">>,
     <<"n", "u", "c", "l", "e", "a", "r">>,
     <<"d", "a", "m">>,
     <<"m", "i", "l", "i", "t", "a", "r", "y">>,
     <<"p", "r", "i", "s", "o", "n">>,
     <<"h", "o", "s", "p", "i", "t", "a", "l">>,
     <<"e", "m", "b", "a", "s", "s", "y">>,
     <<"f", "a", "c", "t", "o", "r", "y">>,
     <<"i", "n", "d", "u", "s", "t", "r", "i", "a", "l">>,
     <<"s", "c", "h", "o", "o", "l">>,
     <<"u", "n", "i", "v", "e", "r", "s", "i", "t", "y">>,
     <<"c", "o", "l", "l", "e", "g", "e">>,
     <<"s", "t", "a", "d", "i", "u", "m">>,
     <<"f", "i", "r", "e", "_", "s", "t", "a", "t", "i", "o", "n">>,
     <<"p", "o", "l", "i", "c", "e">>,
     <<"c", "o", "u", "r", "t", "h", "o", "u", "s", "e">>,
     <<"b", "a", "n", "k">>,
     <<"a", "t", "m">>,
     <<"f", "u", "e", "l">>,
     <<"g", "a", "s", "_", "s", "t", "a", "t", "i", "o", "n">>,
     <<"p", "e", "t", "r", "o", "l">>,
     <<"c", "h", "a", "r", "g", "i", "n", "g", "_", "s", "t", "a", "t", "i", "o", "n">>,
     <<"w", "a", "t", "e", "r", "_", "t", "o", "w", "e", "r">>,
     <<"w", "a", "t", "e", "r", "_", "t", "r", "e", "a", "t", "m", "e", "n", "t">>,
     <<"w", "a", "s", "t", "e", "w", "a", "t", "e", "r">>,
     <<"s", "e", "w", "a", "g", "e">>,
     <<"l", "a", "n", "d", "f", "i", "l", "l">>,
     <<"q", "u", "a", "r", "r", "y">>,
     <<"m", "i", "n", "e">>,
     <<"o", "i", "l", "_", "w", "e", "l", "l">>,
     <<"g", "a", "s", "_", "w", "e", "l", "l">>,
     <<"s", "t", "o", "r", "a", "g", "e", "_", "t", "a", "n", "k">>,
     <<"s", "i", "l", "o">>,
     <<"c", "h", "i", "m", "n", "e", "y">>,
     <<"c", "o", "o", "l", "i", "n", "g", "_", "t", "o", "w", "e", "r">>,
     <<"l", "i", "g", "h", "t", "h", "o", "u", "s", "e">>,
     <<"r", "a", "d", "a", "r">>,
     <<"s", "u", "r", "v", "e", "i", "l", "l", "a", "n", "c", "e", "_", "c", "a", "m", "e", "r", "a">>,
     <<"c", "c", "t", "v">>,
     <<"a", "n", "t", "e", "n", "n", "a">>,
     <<"m", "a", "s", "t">>,
     <<"b", "r", "i", "d", "g", "e">>,
     <<"t", "u", "n", "n", "e", "l">>,
     <<"f", "e", "r", "r", "y", "_", "t", "e", "r", "m", "i", "n", "a", "l">>,
     <<"b", "u", "s", "_", "s", "t", "a", "t", "i", "o", "n">>,
     <<"t", "r", "a", "i", "n", "_", "s", "t", "a", "t", "i", "o", "n">>,
     <<"m", "e", "t", "r", "o">>,
     <<"p", "a", "r", "k", "i", "n", "g">>,
     <<"c", "e", "m", "e", "t", "e", "r", "y">>,
     <<"p", "l", "a", "c", "e", "_", "o", "f", "_", "w", "o", "r", "s", "h", "i", "p">>,
     <<"m", "o", "s", "q", "u", "e">>,
     <<"c", "h", "u", "r", "c", "h">>,
     <<"t", "e", "m", "p", "l", "e">>,
     <<"s", "y", "n", "a", "g", "o", "g", "u", "e">>,
     <<"l", "i", "b", "r", "a", "r", "y">>,
     <<"m", "u", "s", "e", "u", "m">>,
     <<"t", "h", "e", "a", "t", "r", "e">>,
     <<"c", "i", "n", "e", "m", "a">>,
     <<"h", "o", "t", "e", "l">>,
     <<"p", "h", "a", "r", "m", "a", "c", "y">>,
     <<"c", "l", "i", "n", "i", "c">>,
     <<"d", "e", "n", "t", "i", "s", "t">>,
     <<"v", "e", "t", "e", "r", "i", "n", "a", "r", "y">>,
     <<"p", "o", "s", "t", "_", "o", "f", "f", "i", "c", "e">>,
     <<"r", "e", "c", "y", "c", "l", "i", "n", "g">>,
     <<"o", "b", "s", "e", "r", "v", "a", "t", "o", "r", "y">>,
     <<"c", "r", "a", "n", "e">>,
     <<"w", "i", "n", "d", "m", "i", "l", "l">>,
     <<"w", "a", "t", "e", "r", "m", "i", "l", "l">>,
     <<"w", "o", "r", "k", "s">>,
     <<"g", "a", "s", "o", "m", "e", "t", "e", "r">>,
     <<"b", "u", "n", "k", "e", "r">>,
     <<"b", "a", "r", "r", "a", "c", "k", "s">>,
     <<"a", "i", "r", "f", "i", "e", "l", "d">>,
     <<"n", "a", "v", "a", "l", "_", "b", "a", "s", "e">>,
     <<"n", "u", "c", "l", "e", "a", "r", "_", "s", "i", "t", "e">>,
     <<"r", "a", "n", "g", "e">>,
     <<"c", "h", "e", "c", "k", "p", "o", "i", "n", "t">>,
     <<"b", "o", "r", "d", "e", "r", "_", "c", "o", "n", "t", "r", "o", "l">>,
     <<"h", "y", "d", "r", "o", "e", "l", "e", "c", "t", "r", "i", "c">>,
     <<"g", "e", "o", "t", "h", "e", "r", "m", "a", "l">>,
     <<"b", "i", "o", "g", "a", "s">>,
     <<"b", "i", "o", "m", "a", "s", "s">>,
     <<"t", "i", "d", "a", "l">>,
     <<"c", "o", "a", "l">>,
     <<"g", "a", "s", "_", "p", "o", "w", "e", "r">>,
     <<"o", "i", "l", "_", "p", "o", "w", "e", "r">>,
     <<"t", "r", "a", "n", "s", "f", "o", "r", "m", "e", "r">>,
     <<"p", "o", "w", "e", "r", "_", "l", "i", "n", "e">>,
     <<"p", "o", "w", "e", "r", "_", "p", "o", "l", "e">>,
     <<"r", "u", "n", "w", "a", "y">>,
     <<"t", "a", "x", "i", "w", "a", "y">>,
     <<"t", "e", "r", "m", "i", "n", "a", "l">>,
     <<"h", "a", "n", "g", "a", "r">>,
     <<"s", "e", "a", "p", "o", "r", "t">>,
     <<"m", "a", "r", "i", "n", "a">>,
     <<"s", "h", "i", "p", "y", "a", "r", "d">>,
     <<"d", "o", "c", "k">>,
     <<"t", "r", "a", "m", "_", "s", "t", "o", "p">>,
     <<"h", "a", "l", "t">>,
     <<"l", "e", "v", "e", "l", "_", "c", "r", "o", "s", "s", "i", "n", "g">>,
     <<"t", "o", "l", "l", "_", "b", "o", "o", "t", "h">>,
     <<"w", "e", "i", "g", "h", "_", "s", "t", "a", "t", "i", "o", "n">>,
     <<"c", "e", "l", "l", "_", "t", "o", "w", "e", "r">>,
     <<"r", "a", "d", "i", "o", "_", "t", "o", "w", "e", "r">>,
     <<"b", "r", "o", "a", "d", "c", "a", "s", "t", "_", "t", "o", "w", "e", "r">>,
     <<"s", "a", "t", "e", "l", "l", "i", "t", "e", "_", "d", "i", "s", "h">>,
     <<"t", "e", "l", "e", "p", "h", "o", "n", "e", "_", "e", "x", "c", "h", "a", "n", "g", "e">>,
     <<"a", "m", "b", "u", "l", "a", "n", "c", "e", "_", "s", "t", "a", "t", "i", "o", "n">>,
     <<"e", "m", "e", "r", "g", "e", "n", "c", "y", "_", "p", "h", "o", "n", "e">>,
     <<"f", "i", "r", "e", "_", "h", "y", "d", "r", "a", "n", "t">>,
     <<"l", "i", "f", "e", "g", "u", "a", "r", "d">>,
     <<"r", "e", "s", "c", "u", "e", "_", "s", "t", "a", "t", "i", "o", "n">>,
     <<"c", "o", "a", "s", "t", "_", "g", "u", "a", "r", "d">>,
     <<"t", "o", "w", "n", "h", "a", "l", "l">>,
     <<"g", "o", "v", "e", "r", "n", "m", "e", "n", "t">>,
     <<"c", "u", "s", "t", "o", "m", "s">>,
     <<"t", "a", "x", "_", "o", "f", "f", "i", "c", "e">>,
     <<"k", "i", "n", "d", "e", "r", "g", "a", "r", "t", "e", "n">>,
     <<"d", "r", "i", "v", "i", "n", "g", "_", "s", "c", "h", "o", "o", "l">>,
     <<"r", "e", "s", "e", "a", "r", "c", "h">>,
     <<"b", "r", "e", "w", "e", "r", "y">>,
     <<"d", "i", "s", "t", "i", "l", "l", "e", "r", "y">>,
     <<"s", "a", "w", "m", "i", "l", "l">>,
     <<"s", "l", "a", "u", "g", "h", "t", "e", "r", "h", "o", "u", "s", "e">>,
     <<"s", "c", "r", "a", "p", "_", "y", "a", "r", "d">>,
     <<"d", "e", "p", "o", "t">>,
     <<"r", "e", "c", "y", "c", "l", "i", "n", "g", "_", "p", "l", "a", "n", "t">>,
     <<"s", "p", "o", "r", "t", "s", "_", "c", "e", "n", "t", "r", "e">>,
     <<"s", "w", "i", "m", "m", "i", "n", "g", "_", "p", "o", "o", "l">>,
     <<"g", "o", "l", "f", "_", "c", "o", "u", "r", "s", "e">>,
     <<"r", "a", "c", "e", "t", "r", "a", "c", "k">>,
     <<"i", "c", "e", "_", "r", "i", "n", "k">>,
     <<"c", "a", "m", "p", "s", "i", "t", "e">>,
     <<"c", "a", "r", "a", "v", "a", "n", "_", "s", "i", "t", "e">>,
     <<"t", "h", "e", "m", "e", "_", "p", "a", "r", "k">>,
     <<"z", "o", "o">>,
     <<"a", "q", "u", "a", "r", "i", "u", "m">>,
     <<"v", "i", "e", "w", "p", "o", "i", "n", "t">>,
     <<"a", "t", "t", "r", "a", "c", "t", "i", "o", "n">>,
     <<"n", "u", "r", "s", "i", "n", "g", "_", "h", "o", "m", "e">>,
     <<"h", "o", "s", "p", "i", "c", "e">>,
     <<"b", "l", "o", "o", "d", "_", "b", "a", "n", "k">>,
     <<"f", "a", "r", "m">>,
     <<"g", "r", "e", "e", "n", "h", "o", "u", "s", "e">>,
     <<"o", "r", "c", "h", "a", "r", "d">>,
     <<"v", "i", "n", "e", "y", "a", "r", "d">>,
     <<"m", "o", "n", "u", "m", "e", "n", "t">>,
     <<"m", "e", "m", "o", "r", "i", "a", "l">>,
     <<"c", "a", "s", "t", "l", "e">>,
     <<"f", "o", "r", "t">>,
     <<"r", "u", "i", "n", "s">>,
     <<"a", "r", "c", "h", "a", "e", "o", "l", "o", "g", "i", "c", "a", "l", "_", "s", "i", "t", "e">>,
     <<"c", "l", "o", "c", "k", "_", "t", "o", "w", "e", "r">>,
     <<"b", "e", "l", "l", "_", "t", "o", "w", "e", "r">>,
     <<"w", "a", "t", "e", "r", "_", "w", "e", "l", "l">>,
     <<"r", "e", "s", "e", "r", "v", "o", "i", "r">>,
     <<"p", "u", "m", "p", "i", "n", "g", "_", "s", "t", "a", "t", "i", "o", "n">>,
     <<"s", "e", "w", "a", "g", "e", "_", "p", "l", "a", "n", "t">>,
     <<"r", "e", "s", "t", "_", "a", "r", "e", "a">>,
     <<"s", "e", "r", "v", "i", "c", "e", "_", "a", "r", "e", "a">>,
     <<"a", "t", "c", "_", "t", "o", "w", "e", "r">>
  }

OPERATOR_ALIASES ==
  <<
     [canonical |-> <<"a", "i", "r", "t", "e", "l">>,
      aliases |-> <<<<"b", "h", "a", "r", "t", "i", " ", "a", "i", "r", "t", "e", "l">>, <<"a", "i", "r", "t", "e", "l", " ", "i", "n", "d", "i", "a">>, <<"a", "i", "r", "t", "e", "l", " ", "t", "e", "l", "e", "c", "o", "m">>>>],
     [canonical |-> <<"j", "i", "o">>,
      aliases |-> <<<<"r", "e", "l", "i", "a", "n", "c", "e", " ", "j", "i", "o">>, <<"j", "i", "o", " ", "i", "n", "f", "o", "c", "o", "m", "m">>>>],
     [canonical |-> <<"v", "o", "d", "a", "f", "o", "n", "e">>,
      aliases |-> <<<<"v", "o", "d", "a", "f", "o", "n", "e", " ", "i", "d", "e", "a">>, <<"v", "i">>, <<"v", "o", "d", "a", "f", "o", "n", "e", " ", "i", "n", "d", "i", "a">>>>],
     [canonical |-> <<"b", "s", "n", "l">>,
      aliases |-> <<<<"b", "h", "a", "r", "a", "t", " ", "s", "a", "n", "c", "h", "a", "r", " ", "n", "i", "g", "a", "m">>>>],
     [canonical |-> <<"g", "o", "o", "g", "l", "e">>,
      aliases |-> <<<<"g", "o", "o", "g", "l", "e", " ", "l", "l", "c">>, <<"g", "o", "o", "g", "l", "e", " ", "i", "n", "c">>>>],
     [canonical |-> <<"a", "m", "a", "z", "o", "n">>,
      aliases |-> <<<<"a", "m", "a", "z", "o", "n", " ", "w", "e", "b", " ", "s", "e", "r", "v", "i", "c", "e", "s">>, <<"a", "w", "s">>>>],
     [canonical |-> <<"m", "i", "c", "r", "o", "s", "o", "f", "t">>,
      aliases |-> <<<<"m", "i", "c", "r", "o", "s", "o", "f", "t", " ", "a", "z", "u", "r", "e">>, <<"a", "z", "u", "r", "e">>>>],
     [canonical |-> <<"m", "e", "t", "a">>,
      aliases |-> <<<<"f", "a", "c", "e", "b", "o", "o", "k">>, <<"m", "e", "t", "a", " ", "p", "l", "a", "t", "f", "o", "r", "m", "s">>>>],
     [canonical |-> <<"a", "p", "p", "l", "e">>,
      aliases |-> <<<<"a", "p", "p", "l", "e", " ", "i", "n", "c">>>>],
     [canonical |-> <<"a", "t", "&", "t">>,
      aliases |-> <<<<"a", "t", "t">>, <<"a", "t", " ", "a", "n", "d", " ", "t">>>>],
     [canonical |-> <<"v", "e", "r", "i", "z", "o", "n">>,
      aliases |-> <<<<"v", "e", "r", "i", "z", "o", "n", " ", "w", "i", "r", "e", "l", "e", "s", "s">>>>],
     [canonical |-> <<"t", "-", "m", "o", "b", "i", "l", "e">>,
      aliases |-> <<<<"t", "m", "o", "b", "i", "l", "e">>, <<"t", " ", "m", "o", "b", "i", "l", "e">>>>],
     [canonical |-> <<"v", "o", "d", "a", "c", "o", "m">>,
      aliases |-> <<<<"v", "o", "d", "a", "c", "o", "m", " ", "g", "r", "o", "u", "p">>>>],
     [canonical |-> <<"m", "t", "n">>,
      aliases |-> <<<<"m", "t", "n", " ", "g", "r", "o", "u", "p">>>>],
     [canonical |-> <<"o", "r", "a", "n", "g", "e">>,
      aliases |-> <<<<"o", "r", "a", "n", "g", "e", " ", "t", "e", "l", "e", "c", "o", "m">>>>],
     [canonical |-> <<"t", "e", "l", "e", "f", "o", "n", "i", "c", "a">>,
      aliases |-> <<<<"m", "o", "v", "i", "s", "t", "a", "r">>>>],
     [canonical |-> <<"c", "h", "i", "n", "a", " ", "m", "o", "b", "i", "l", "e">>,
      aliases |-> <<<<"c", "m", "c", "c">>>>],
     [canonical |-> <<"c", "h", "i", "n", "a", " ", "u", "n", "i", "c", "o", "m">>,
      aliases |-> <<>>],
     [canonical |-> <<"c", "h", "i", "n", "a", " ", "t", "e", "l", "e", "c", "o", "m">>,
      aliases |-> <<>>],
     [canonical |-> <<"n", "t", "p", "c">>,
      aliases |-> <<<<"n", "a", "t", "i", "o", "n", "a", "l", " ", "t", "h", "e", "r", "m", "a", "l", " ", "p", "o", "w", "e", "r", " ", "c", "o", "r", "p", "o", "r", "a", "t", "i", "o", "n">>>>],
     [canonical |-> <<"a", "d", "a", "n", "i">>,
      aliases |-> <<<<"a", "d", "a", "n", "i", " ", "p", "o", "w", "e", "r">>, <<"a", "d", "a", "n", "i", " ", "g", "r", "e", "e", "n">>>>],
     [canonical |-> <<"t", "a", "t", "a">>,
      aliases |-> <<<<"t", "a", "t", "a", " ", "p", "o", "w", "e", "r">>, <<"t", "a", "t", "a", " ", "s", "t", "e", "e", "l">>>>],
     [canonical |-> <<"r", "e", "l", "i", "a", "n", "c", "e">>,
      aliases |-> <<<<"r", "e", "l", "i", "a", "n", "c", "e", " ", "i", "n", "d", "u", "s", "t", "r", "i", "e", "s">>, <<"r", "i", "l">>>>]
  >>

\* /^(?:type:|operator:|region:|country:|near:|radius:)/
STRUCTURED_PATTERN ==
  <<AtStart, Alt(<<<<Lit(<<"t", "y", "p", "e", ":">>)>>, <<Lit(<<"o", "p", "e", "r", "a", "t", "o", "r", ":">>)>>, <<Lit(<<"r", "e", "g", "i", "o", "n", ":">>)>>, <<Lit(<<"c", "o", "u", "n", "t", "r", "y", ":">>)>>, <<Lit(<<"n", "e", "a", "r", ":">>)>>, <<Lit(<<"r", "a", "d", "i", "u", "s", ":">>)>>>>)>>

\* /\bnear\s+(.+?)(?:\s+(?:in|within|radius)|$)/
NEAR_PATTERN ==
  <<WordB, Lit(<<"n", "e", "a", "r">>), Plus(<<SpaceC>>), CapOpen, PlusLazy(<<AnyC>>), CapClose, Alt(<<<<Plus(<<SpaceC>>), Alt(<<<<Lit(<<"i", "n">>)>>, <<Lit(<<"w", "i", "t", "h", "i", "n">>)>>, <<Lit(<<"r", "a", "d", "i", "u", "s">>)>>>>)>>, <<AtEnd>>>>)>>

\* /\bin\s+(.+?)(?:\s+(?:near|within)|$)/
IN_PATTERN ==
  <<WordB, Lit(<<"i", "n">>), Plus(<<SpaceC>>), CapOpen, PlusLazy(<<AnyC>>), CapClose, Alt(<<<<Plus(<<SpaceC>>), Alt(<<<<Lit(<<"n", "e", "a", "r">>)>>, <<Lit(<<"w", "i", "t", "h", "i", "n">>)>>>>)>>, <<AtEnd>>>>)>>

\* /(?:within|radius)\s*[:=]?\s*(\d+)\s*(?:km|kilometers?|kilometres?)?/
RADIUS_PATTERN ==
  <<Alt(<<<<Lit(<<"w", "i", "t", "h", "i", "n">>)>>, <<Lit(<<"r", "a", "d", "i", "u", "s">>)>>>>), Star(<<SpaceC>>), Opt(<<OneOf({":", "="})>>), Star(<<SpaceC>>), CapOpen, Plus(<<DigitC>>), CapClose, Star(<<SpaceC>>), Opt(<<Alt(<<<<Lit(<<"k", "m">>)>>, <<Lit(<<"k", "i", "l", "o", "m", "e", "t", "e", "r">>), Opt(<<Lit(<<"s">>)>>)>>, <<Lit(<<"k", "i", "l", "o", "m", "e", "t", "r", "e">>), Opt(<<Lit(<<"s">>)>>)>>>>)>>)>>

\* /type:([^\s]+)/
TypeFieldPattern ==
  <<Lit(<<"t", "y", "p", "e", ":">>), CapOpen, Plus(<<NonSpaceC>>), CapClose>>

\* /operator:([^\s]+)/
OperatorFieldPattern ==
  <<Lit(<<"o", "p", "e", "r", "a", "t", "o", "r", ":">>), CapOpen, Plus(<<NonSpaceC>>), CapClose>>

\* /region:([^\s]+)/
RegionFieldPattern ==
  <<Lit(<<"r", "e", "g", "i", "o", "n", ":">>), CapOpen, Plus(<<NonSpaceC>>), CapClose>>

\* /country:([^\s]+)/
CountryFieldPattern ==
  <<Lit(<<"c", "o", "u", "n", "t", "r", "y", ":">>), CapOpen, Plus(<<NonSpaceC>>), CapClose>>

\* /near:([^\s]+)/
NearFieldPattern ==
  <<Lit(<<"n", "e", "a", "r", ":">>), CapOpen, Plus(<<NonSpaceC>>), CapClose>>

\* /radius:(\d+)/
RadiusFieldPattern ==
  <<Lit(<<"r", "a", "d", "i", "u", "s", ":">>), CapOpen, Plus(<<DigitC>>), CapClose>>

\* /\b(the|a|an|all|show|find|search|get|list)\b/
StopWordPattern ==
  <<WordB, CapOpen, Alt(<<<<Lit(<<"t", "h", "e">>)>>, <<Lit(<<"a">>)>>, <<Lit(<<"a", "n">>)>>, <<Lit(<<"a", "l", "l">>)>>, <<Lit(<<"s", "h", "o", "w">>)>>, <<Lit(<<"f", "i", "n", "d">>)>>, <<Lit(<<"s", "e", "a", "r", "c", "h">>)>>, <<Lit(<<"g", "e", "t">>)>>, <<Lit(<<"l", "i", "s", "t">>)>>>>), CapClose, WordB>>

\* /\s+/
WhitespaceRun ==
  <<Plus(<<SpaceC>>)>>

\* /_/
Underscore ==
  <<Lit(<<"_">>)>>

\* Keys of Object.prototype that a lower-cased key can name: ASSET_TYPE_MAP is
\* a plain object, so ASSET_TYPE_MAP[key] is truthy for these as well.
ObjectPrototypeKeys ==
  {<<"c", "o", "n", "s", "t", "r", "u", "c", "t", "o", "r">>,
   <<"_", "_", "p", "r", "o", "t", "o", "_", "_">>}

\* `if (ASSET_TYPE_MAP[typeKey])`
HasAssetType(typeKey) == typeKey \in ASSET_TYPE_KEYS \cup ObjectPrototypeKeys

(***************************************************************************)
(* src/lib/parser.ts                                                       *)
(***************************************************************************)
DEFAULT_RADIUS == 50

MAX_RADIUS == 500

EmptyParsedQuery(raw) ==
  [type |-> Null, operator |-> Null, region |-> Null, country |-> Null,
   near |-> Null, radius |-> DEFAULT_RADIUS, raw |-> raw]

\* A value the code tests with `if (x)` or `!x`: null and '' are falsy.
Truthy(s) == s # Null /\ s # <<>>

\* the test without its anchor: a field prefix anywhere in the text
isStructuredQuery_Anywhere(query) == test(Tail(STRUCTURED_PATTERN), query)

isStructuredQuery(query) == test(STRUCTURED_PATTERN, query)

\* `result.radius = Math.min(parseInt(radiusMatch[1], 10), 500)`
ClampRadius(digits) == Min(parseInt(digits), MAX_RADIUS)

\* A string field of parseStructured: the token's value, underscores replaced
FieldValue(query, pattern) ==
  LET m == Search(query, pattern)
  IN  IF m.ok THEN replaceAll(Group1(query, m), Underscore, <<" ">>) ELSE Null

parseStructured(query) ==
  LET typeMatch == Search(query, TypeFieldPattern)
      typeKey == toLowerCase(Group1(query, typeMatch))
      operatorMatch == Search(query, OperatorFieldPattern)
      radiusMatch == Search(query, RadiusFieldPattern)
  IN  [type |-> IF typeMatch.ok /\ HasAssetType(typeKey) THEN typeKey ELSE Null,
       operator |-> IF operatorMatch.ok
                      THEN replaceAll(toLowerCase(Group1(query, operatorMatch)),
                                      Underscore, <<" ">>)
                      ELSE Null,
       region |-> FieldValue(query, RegionFieldPattern),
       country |-> FieldValue(query, CountryFieldPattern),
       near |-> FieldValue(query, NearFieldPattern),
       radius |-> IF radiusMatch.ok THEN ClampRadius(Group1(query, radiusMatch))
                  ELSE DEFAULT_RADIUS,
       raw |-> query]

\* `normalized.includes(canonical)` or `normalized.includes(alias)` for an alias
MentionsOperator(normalized, e) ==
  \/ includes(normalized, e.canonical)
  \/ \E j \in 1..Len(e.aliases) : includes(normalized, e.aliases[j])

\* The index of the first entry lo..hi of OPERATOR_ALIASES, in table order,
\* that the text mentions; 0 when there is none.
\* the last entry the text mentions instead of the first
RECURSIVE FirstOperatorIn_Last(_, _, _)
FirstOperatorIn_Last(normalized, lo, hi) ==
  IF lo > hi THEN 0
  ELSE IF lo = hi THEN (IF MentionsOperator(normalized, OPERATOR_ALIASES[lo]) THEN lo ELSE 0)
  ELSE LET mid == (lo + hi) \div 2
           right == FirstOperatorIn_Last(normalized, mid + 1, hi)
       IN  IF right # 0 THEN right ELSE FirstOperatorIn_Last(normalized, lo, mid)

RECURSIVE FirstOperatorIn(_, _, _)
FirstOperatorIn(normalized, lo, hi) ==
  IF lo > hi THEN 0
  ELSE IF lo = hi THEN (IF MentionsOperator(normalized, OPERATOR_ALIASES[lo]) THEN lo ELSE 0)
  ELSE LET mid == (lo + hi) \div 2
           left == FirstOperatorIn(normalized, lo, mid)
       IN  IF left # 0 THEN left ELSE FirstOperatorIn(normalized, mid + 1, hi)

extractOperator(query) ==
  LET i == FirstOperatorIn(toLowerCase(query), 1, Len(OPERATOR_ALIASES))
  IN  IF i = 0 THEN Null ELSE OPERATOR_ALIASES[i].canonical

\* The index of the first pattern lo..hi of TYPE_PATTERNS, in list order, that
\* matches; 0 when there is none.
RECURSIVE FirstTypeIn(_, _, _)
FirstTypeIn(query, lo, hi) ==
  IF lo > hi THEN 0
  ELSE IF lo = hi THEN (IF test(TYPE_PATTERNS[lo].pattern, query) THEN lo ELSE 0)
  ELSE LET mid == (lo + hi) \div 2
           left == FirstTypeIn(query, lo, mid)
       IN  IF left # 0 THEN left ELSE FirstTypeIn(query, mid + 1, hi)

extractType(query) ==
  LET i == FirstTypeIn(query, 1, Len(TYPE_PATTERNS))
  IN  IF i = 0 THEN Null ELSE TYPE_PATTERNS[i].type

\* `for (const { pattern } of TYPE_PATTERNS) cleaned = cleaned.replace(pattern, '')`
\* for the patterns lo..hi, in list order (the range is halved to keep the
\* evaluation shallow; nothing is left to strip from an empty text).
RECURSIVE StripTypes(_, _, _)
StripTypes(cleaned, lo, hi) ==
  IF lo > hi \/ Len(cleaned) = 0 THEN cleaned
  ELSE IF lo = hi THEN replaceFirst(cleaned, TYPE_PATTERNS[lo].pattern, <<>>)
  ELSE LET mid == (lo + hi) \div 2
       IN  StripTypes(StripTypes(cleaned, lo, mid), mid + 1, hi)

\* The names of OPERATOR_ALIASES in the order the loop of extractLocation
\* visits them: each canonical name, then its aliases
RECURSIVE OperatorNamesFrom(_)
OperatorNamesFrom(i) ==
  IF i > Len(OPERATOR_ALIASES) THEN <<>>
  ELSE <<OPERATOR_ALIASES[i].canonical>> \o OPERATOR_ALIASES[i].aliases \o OperatorNamesFrom(i + 1)

OperatorNames == OperatorNamesFrom(1)

\* `cleaned = cleaned.replace(new RegExp(name, 'gi'), '')` for the names lo..hi
RECURSIVE StripOperators(_, _, _)
StripOperators(cleaned, lo, hi) ==
  IF lo > hi \/ Len(cleaned) = 0 THEN cleaned
  ELSE IF lo = hi THEN replaceAll(cleaned, <<Lit(OperatorNames[lo])>>, <<>>)
  ELSE LET mid == (lo + hi) \div 2
       IN  StripOperators(StripOperators(cleaned, lo, mid), mid + 1, hi)

extractLocation(query) ==
  LET cleanedQuery == StripOperators(StripTypes(query, 1, Len(TYPE_PATTERNS)),
                                     1, Len(OperatorNames))
      nearMatch == Search(query, NEAR_PATTERN)
      inMatch == Search(cleanedQuery, IN_PATTERN)
      residual == trim(replaceAll(replaceAll(cleanedQuery, StopWordPattern, <<>>),
                                  WhitespaceRun, <<" ">>))
  IN  IF nearMatch.ok THEN [region |-> Null, near |-> trim(Group1(query, nearMatch))]
      ELSE IF inMatch.ok
        THEN [region |-> trim(Group1(cleanedQuery, inMatch)), near |-> Null]
      ELSE IF Len(residual) > 2 /\ Len(residual) < 100
        THEN [region |-> residual, near |-> Null]
      ELSE [region |-> Null, near |-> Null]

parseNatural(query) ==
  LET location == extractLocation(query)
      radiusMatch == Search(query, RADIUS_PATTERN)
  IN  [type |-> extractType(query),
       operator |-> extractOperator(query),
       region |-> location.region,
       country |-> Null,
       near |-> location.near,
       radius |-> IF radiusMatch.ok THEN ClampRadius(Group1(query, radiusMatch))
                  ELSE DEFAULT_RADIUS,
       raw |-> query]

parseQuery(query) ==
  LET trimmed == trim(query)
  IN  IF Len(trimmed) = 0 THEN EmptyParsedQuery(<<>>)
      ELSE IF isStructuredQuery(trimmed) THEN parseStructured(trimmed)
      ELSE parseNatural(trimmed)

InvalidNoFilter == "Query must specify an asset type or operator"

InvalidNoScope == "Query must specify a geographic scope"

\* validateQuery without its second test
validateQuery_FilterOnly(parsed) ==
  IF ~Truthy(parsed.type) /\ ~Truthy(parsed.operator)
    THEN [valid |-> FALSE, error |-> InvalidNoFilter]
  ELSE [valid |-> TRUE, error |-> "none"]

\* validateQuery with its two tests in the other order
validateQuery_ScopeFirst(parsed) ==
  IF ~Truthy(parsed.region) /\ ~Truthy(parsed.near) /\ ~Truthy(parsed.country)
    THEN [valid |-> FALSE, error |-> InvalidNoScope]
  ELSE IF ~Truthy(parsed.type) /\ ~Truthy(parsed.operator)
    THEN [valid |-> FALSE, error |-> InvalidNoFilter]
  ELSE [valid |-> TRUE, error |-> "none"]

validateQuery(parsed) ==
  IF ~Truthy(parsed.type) /\ ~Truthy(parsed.operator)
    THEN [valid |-> FALSE, error |-> InvalidNoFilter]
  ELSE IF ~Truthy(parsed.region) /\ ~Truthy(parsed.near) /\ ~Truthy(parsed.country)
    THEN [valid |-> FALSE, error |-> InvalidNoScope]
  ELSE [valid |-> TRUE, error |-> "none"]

(***************************************************************************)
(* src/unnamed/part_000 (the geocoding client and the geometry)            *)
(***************************************************************************)
NOMINATIM_MIN_INTERVAL == 1000

adminTypes == {"administrative", "state", "city", "town", "village", "county", "district"}

\* Importance scores are held in thousandths: `importance > 0.5`
Qualifies(g) == g.type \in adminTypes \/ g.importance > 500

\* `results.sort((a, b) => b.importance - a.importance)[0]`: the sort is
\* stable, so the first of the candidates of maximal importance comes first.
MaxImportanceIndex(results) ==
  CHOOSE i \in 1..Len(results) :
    /\ \A j \in 1..Len(results) : results[j].importance <= results[i].importance
    /\ \A j \in 1..(i - 1) : results[j].importance < results[i].importance

\* resolveLocation, applied to the list geocode() returned; NotFound is null
NotFound == [found |-> FALSE]

resolveLocation_BestFirst(results) ==
  IF Len(results) = 0 THEN NotFound
  ELSE results[MaxImportanceIndex(results)]

resolveLocation(results) ==
  IF Len(results) = 0 THEN NotFound
  ELSE IF \E i \in 1..Len(results) : Qualifies(results[i])
    THEN results[CHOOSE i \in 1..Len(results) :
                   Qualifies(results[i]) /\ \A j \in 1..(i - 1) : ~Qualifies(results[j])]
  ELSE results[MaxImportanceIndex(results)]

\* Coordinates are whole multiples of 1/111 of a degree, so that
\* latDelta = radiusKm / 111.0 is radiusKm units; 1 / cos(lat) is tabulated
\* for the latitudes the geocoder answers with (0 and 60 degrees).
Lat60 == 60 * 111

InverseCos(lat) == IF lat = Lat60 \/ lat = -Lat60 THEN 2 ELSE 1

calculateBoundingBox(lat, lon, radiusKm) ==
  LET latDelta == radiusKm
      lonDelta == radiusKm * InverseCos(lat)
  IN  <<lat - latDelta, lat + latDelta, lon - lonDelta, lon + lonDelta>>

\* OSM ids and area ids exceed the integers of the model checker: such a
\* number is held as hi * 10^6 + lo with 0 <= lo < 10^6, and the additions of
\* the source are carried out exactly, as they are on JavaScript numbers
\* below 2^53.
BigBase == 1000 * 1000

Big(hi, lo) == [hi |-> hi, lo |-> lo]

BigAdd(a, b) ==
  Big(a.hi + b.hi + ((a.lo + b.lo) \div BigBase), (a.lo + b.lo) % BigBase)

\* null, where the source holds null in place of a number
NoArea == Big(-1, 0)

\* `if (n)`: null and 0 are falsy
TruthyNumber(n) == n # NoArea /\ n # Big(0, 0)

\* the sums reduced to 32 bits, as an unsigned integer addition would
Wrap32(n) ==
  IF n = NoArea \/ n.hi < 4294 \/ (n.hi = 4294 /\ n.lo < 967296) THEN n
  ELSE IF n.lo >= 967296 THEN Big(n.hi - 4294, n.lo - 967296)
  ELSE Big(n.hi - 4295, n.lo + BigBase - 967296)

osmIdToAreaId_Wraps(osmType, osmId) ==
  Wrap32(IF osmType = "relation" THEN BigAdd(osmId, Big(3600, 0))
         ELSE IF osmType = "way" THEN BigAdd(osmId, Big(2400, 0))
         ELSE NoArea)

osmIdToAreaId(osmType, osmId) ==
  IF osmType = "relation" THEN BigAdd(osmId, Big(3600, 0))
  ELSE IF osmType = "way" THEN BigAdd(osmId, Big(2400, 0))
  ELSE NoArea

(***************************************************************************)
(* src/lib/overpass.ts                                                     *)
(***************************************************************************)
OVERPASS_APIS ==
  <<"https://overpass-api.de/api/interpreter",
    "https://maps.mail.ru/osm/tools/overpass/api/interpreter",
    "https://overpass.private.coffee/api/interpreter">>

\* An Error and its message, as the words of the message
Error(words) == [message |-> words]

NoError == Error(<<>>)

\* the box written in the order it is stored in: south, north, west, east
bboxStr_AsStored(bbox) == bbox

\* `[bbox[0], bbox[2], bbox[1], bbox[3]]`: south, west, north, east
bboxStr(bbox) == <<bbox[1], bbox[3], bbox[2], bbox[4]>>

\* `if (areaId) (area:...) else (bbox)`
locationFilter(bbox, areaId) ==
  IF TruthyNumber(areaId) THEN [kind |-> "area", area |-> areaId, box |-> <<>>]
  ELSE [kind |-> "bbox", area |-> NoArea, box |-> bboxStr(bbox)]

\* buildOverpassQuery: the query, or the exception it raises.  A key of
\* Object.prototype passes `if (!typeConfig)` and fails in buildTagFilter.
buildOverpassQuery(assetType, bbox, operator, areaId) ==
  IF assetType \notin ASSET_TYPE_KEYS \cup ObjectPrototypeKeys
    THEN [threw |-> TRUE, error |-> Error(<<"Unknown", "asset", "type:">>), query |-> <<>>]
  ELSE IF assetType \notin ASSET_TYPE_KEYS
    THEN [threw |-> TRUE,
          error |-> Error(<<"Cannot", "convert", "undefined", "or", "null", "to", "object">>),
          query |-> <<>>]
  ELSE [threw |-> FALSE, error |-> NoError,
        query |-> <<[tags |-> assetType,
                     operator |-> IF Truthy(operator) THEN operator ELSE Null,
                     location |-> locationFilter(bbox, areaId)]>>]

buildMultiTypeQuery(bbox, operator, areaId) ==
  [threw |-> FALSE, error |-> NoError,
   query |-> <<[tags |-> Null, operator |-> operator,
                location |-> locationFilter(bbox, areaId)]>>]

\* null, where the source holds null in a field whose other values are strings
JsNull == "<null>"

\* tags[key], '' when the key is absent (both are falsy)
Tag(tags, key) == IF key \in DOMAIN tags THEN tags[key] ELSE ""

extractName(tags) ==
  IF Tag(tags, "name") # "" THEN Tag(tags, "name")
  ELSE IF Tag(tags, "name:en") # "" THEN Tag(tags, "name:en")
  ELSE IF Tag(tags, "ref") # "" THEN Tag(tags, "ref")
  ELSE IF Tag(tags, "description") # "" THEN Tag(tags, "description")
  ELSE IF Tag(tags, "operator") # "" THEN Tag(tags, "operator")
  ELSE "Unnamed"

\* extractType of overpass.ts (parser.ts has an extractType of its own); a
\* type is the sequence of the parts of the template string that builds it.
extractAssetType(tags) ==
  IF Tag(tags, "tower:type") # "" THEN <<"tower:", Tag(tags, "tower:type")>>
  ELSE IF Tag(tags, "building") = "data_centre" THEN <<"data_center">>
  ELSE IF Tag(tags, "power") = "plant" THEN <<"power_plant">>
  ELSE IF Tag(tags, "power") = "substation" THEN <<"substation">>
  ELSE IF Tag(tags, "power") = "generator"
    THEN (IF Tag(tags, "generator:source") # "" THEN <<Tag(tags, "generator:source")>>
          ELSE <<"generator">>)
  ELSE IF Tag(tags, "aeroway") = "aerodrome" THEN <<"airport">>
  ELSE IF Tag(tags, "aeroway") = "helipad" THEN <<"helipad">>
  ELSE IF Tag(tags, "man_made") = "tower" THEN <<"tower">>
  ELSE IF Tag(tags, "man_made") = "communications_tower" THEN <<"cell_tower">>
  ELSE IF Tag(tags, "man_made") = "surveillance" /\ Tag(tags, "surveillance:type") = "camera"
    THEN <<"surveillance_camera">>
  ELSE IF Tag(tags, "man_made") = "surveillance" THEN <<"surveillance">>
  ELSE IF Tag(tags, "man_made") = "antenna" THEN <<"antenna">>
  ELSE IF Tag(tags, "man_made") = "mast" THEN <<"mast">>
  ELSE IF Tag(tags, "man_made") = "pipeline" THEN <<"pipeline">>
  ELSE IF Tag(tags, "landuse") = "port" THEN <<"port">>
  ELSE IF Tag(tags, "harbour") # "" THEN <<"harbour">>
  ELSE IF Tag(tags, "building") = "warehouse" THEN <<"warehouse">>
  ELSE IF Tag(tags, "landuse") = "railway" THEN <<"railyard">>
  ELSE IF Tag(tags, "landuse") = "military" THEN <<"military">>
  ELSE IF Tag(tags, "landuse") = "industrial" THEN <<"industrial">>
  ELSE IF Tag(tags, "amenity") = "prison" THEN <<"prison">>
  ELSE IF Tag(tags, "amenity") = "hospital" THEN <<"hospital">>
  ELSE IF Tag(tags, "amenity") = "embassy" THEN <<"embassy">>
  ELSE IF Tag(tags, "waterway") = "dam" THEN <<"dam">>
  ELSE IF Tag(tags, "building") = "industrial" THEN <<"factory">>
  ELSE IF Tag(tags, "building") # "" THEN <<"building">>
  ELSE <<"infrastructure">>

\* the filter on the element's own coordinates only
HasCoord_OwnOnly(el, f) == f \in DOMAIN el

\* `el.lat ?? el.center?.lat`: a field is absent from the record when the
\* response does not carry it.
HasCoord(el, f) == f \in DOMAIN el \/ ("center" \in DOMAIN el /\ f \in DOMAIN el.center)

Coord(el, f) == IF f \in DOMAIN el THEN el[f] ELSE el.center[f]

\* `el.tags || {}`
TagsOf(el) == IF "tags" \in DOMAIN el THEN el.tags ELSE [k \in {} |-> ""]

ToAsset(el) ==
  LET tags == TagsOf(el)
  IN  [id |-> <<el.type, "/", el.id>>,
       name |-> extractName(tags),
       type |-> extractAssetType(tags),
       operator |-> IF Tag(tags, "operator") # "" THEN Tag(tags, "operator") ELSE JsNull,
       lat |-> Coord(el, "lat"),
       lon |-> Coord(el, "lon"),
       tags |-> tags]

\* `data.elements.filter(...).map(...)`
RECURSIVE NormalizeElements(_)
NormalizeElements(elements) ==
  IF Len(elements) = 0 THEN <<>>
  ELSE
    LET el == Head(elements)
    IN  IF HasCoord(el, "lat") /\ HasCoord(el, "lon")
          THEN <<ToAsset(el)>> \o NormalizeElements(Tail(elements))
          ELSE NormalizeElements(Tail(elements))

\* calculateStats counts into plain objects, `counts[key] = (counts[key] || 0) + 1`.
\* For a key that names a function every object inherits from
\* Object.prototype the first read finds that function, and the sum is a
\* text (the function's source followed by 1, 11, ...), written NotACount;
\* an assignment of such a text to `__proto__` is ignored, so that key is
\* never created.
InheritedFunctions == {"constructor", "toString", "valueOf", "hasOwnProperty"}

NotACount == -1

Tally(keys, inherited, ignored) ==
  [k \in {keys[i] : i \in 1..Len(keys)} \ ignored |->
     IF k \in inherited THEN NotACount
     ELSE Cardinality({i \in 1..Len(keys) : keys[i] = k})]

calculateStats(assets) ==
  LET opOf(a) == IF a.operator # JsNull /\ a.operator # "" THEN a.operator ELSE "Unknown"
  IN  [total |-> Len(assets),
       operators |-> Tally([i \in 1..Len(assets) |-> opOf(assets[i])],
                           InheritedFunctions, {"__proto__"}),
       types |-> Tally([i \in 1..Len(assets) |-> assets[i].type],
                       {<<f>> : f \in InheritedFunctions}, {<<"__proto__">>})]

\* `${response.status}`
StatusText(status) ==
  CASE status = 429 -> "429"
    [] status = 500 -> "500"
    [] status = 503 -> "503"
    [] status = 504 -> "504"

\* The failure executeQuery constructs or catches for a response that is not
\* a success, as the Error it stores in lastError.
FailureOf(resp, apiEndpoint) ==
  CASE resp.k = "status" /\ resp.status = 429 ->
         Error(<<"Rate", "limited", "by", apiEndpoint>>)
    [] resp.k = "status" /\ resp.status # 429 ->
         Error(<<"API", "request", "failed", "with", "status", StatusText(resp.status)>>)
    [] resp.k = "abort" -> Error(<<"This", "operation", "was", "aborted">>)
    [] resp.k = "network" -> Error(<<"fetch", "failed">>)
    [] resp.k = "badbody" -> Error(<<"Unexpected", "token", "<", "in", "JSON">>)

(***************************************************************************)
(* The in-memory caches (src/lib/cache.ts is not part of the sources; the  *)
(* caches are maps from key to value, as the specification describes them).*)
(***************************************************************************)
EmptyCache == [k \in {} |-> <<>>]

CacheHas(cache, key) == key \in DOMAIN cache

CachePut(cache, key, value) ==
  [k \in DOMAIN cache \cup {key} |-> IF k = key THEN value ELSE cache[k]]

(***************************************************************************)
(* Inputs: the request bodies, the answers of the geocoder and the answers *)
(* of the Overpass endpoints.                                              *)
(***************************************************************************)
\* Number of search requests, which may overlap
NumRequests == 2

Requests == 1..NumRequests

MAX_QUERY_LENGTH == 500

Q_TypeRegion ==
  <<"t", "y", "p", "e", ":", "a", "i", "r", "p", "o", "r", "t", " ",
    "r", "e", "g", "i", "o", "n", ":", "g", "o", "a">>

Q_Natural ==
  <<"A", "i", "r", "p", "o", "r", "t", "s", " ", "i", "n", " ", "g", "o", "a">>

Q_Near ==
  <<"t", "y", "p", "e", ":", "a", "i", "r", "p", "o", "r", "t", " ",
    "n", "e", "a", "r", ":", "g", "o", "a", " ",
    "r", "a", "d", "i", "u", "s", ":", "7", "0">>

Q_Operator ==
  <<"o", "p", "e", "r", "a", "t", "o", "r", ":", "j", "i", "o", " ",
    "c", "o", "u", "n", "t", "r", "y", ":", "g", "o", "a">>

Q_NoScope == <<"t", "o", "w", "e", "r", "s">>

Q_NoFilter == <<"i", "n", " ", "g", "o", "a">>

Q_Prototype ==
  <<"t", "y", "p", "e", ":", "c", "o", "n", "s", "t", "r", "u", "c", "t", "o", "r", " ",
    "r", "e", "g", "i", "o", "n", ":", "g", "o", "a">>

Q_TooLong == [i \in 1..(MAX_QUERY_LENGTH + 1) |-> "a"]

QueryTexts ==
  {Q_TypeRegion, Q_Natural, Q_Near, Q_Operator, Q_NoScope, Q_NoFilter, Q_Prototype,
   Q_TooLong}

\* The body of a request: not JSON, JSON without a query, JSON whose query
\* is not a string, or JSON with a query string (the empty one included).
Bodies ==
  {[t |-> "malformed", query |-> <<>>],
   [t |-> "undefined", query |-> <<>>],
   [t |-> "number", query |-> <<>>],
   [t |-> "string", query |-> <<>>]}
  \cup {[t |-> "string", query |-> q] : q \in QueryTexts}

\* parseQuery is a function of the text: its values on the texts of the model
Parsed == [q \in {t \in QueryTexts : Len(t) <= MAX_QUERY_LENGTH} |-> parseQuery(q)]

G_Relation ==
  [displayName |-> "Goa, India", lat |-> 0, lon |-> 8214, boundingBox |-> <<-50, 50, 8164, 8264>>,
   type |-> "administrative", importance |-> 700, osmType |-> "relation", osmId |-> Big(0, 123),
   found |-> TRUE]

G_Node ==
  [displayName |-> "Goa, Sweden", lat |-> Lat60, lon |-> 1110, boundingBox |-> <<6659, 6661, 1109, 1111>>,
   type |-> "hamlet", importance |-> 300, osmType |-> "node", osmId |-> Big(0, 55),
   found |-> TRUE]

G_Way ==
  [displayName |-> "Goa Street", lat |-> Lat60, lon |-> 2220, boundingBox |-> <<6650, 6670, 2200, 2240>>,
   type |-> "residential", importance |-> 400, osmType |-> "way", osmId |-> Big(1234, 999077),
   found |-> TRUE]

\* What a call of the geocoder ends with: a list of candidates, a status
\* that is not a success, or the abort of the timeout
GeocoderAnswers ==
  {[k |-> "ok", results |-> <<>>],
   [k |-> "ok", results |-> <<G_Relation>>],
   [k |-> "ok", results |-> <<G_Node, G_Way>>],
   [k |-> "status", results |-> <<>>],
   [k |-> "abort", results |-> <<>>]}

E_Node ==
  [type |-> "node", id |-> 101, lat |-> 0, lon |-> 8200,
   tags |-> [aeroway |-> "aerodrome", name |-> "Dabolim", operator |-> "AAI"]]

E_Way ==
  [type |-> "way", id |-> 202, center |-> [lat |-> 10, lon |-> 8210],
   tags |-> [aeroway |-> "helipad"]]

E_NoCoordinates == [type |-> "relation", id |-> 303, tags |-> [aeroway |-> "aerodrome"]]

E_NoTags == [type |-> "node", id |-> 404, lat |-> 5, lon |-> 8205]

ElementLists == {<<E_Node, E_NoCoordinates, E_Way>>, <<E_NoTags>>}

\* What a request to an endpoint ends with
EndpointAnswers ==
  {[k |-> "ok", status |-> 200, elements |-> es] : es \in ElementLists}
  \cup {[k |-> "status", status |-> 429, elements |-> <<>>],
        [k |-> "status", status |-> 500, elements |-> <<>>],
        [k |-> "abort", status |-> 0, elements |-> <<>>],
        [k |-> "network", status |-> 0, elements |-> <<>>],
        [k |-> "badbody", status |-> 200, elements |-> <<>>]}

(***************************************************************************)
(* State                                                                   *)
(***************************************************************************)
VARIABLES
  req,                    \* the search requests (POST of src/app/api/search/route.ts)
  searchCache,            \* cache.ts: cache key -> SearchResult
  geoCache,               \* cache.ts: location string -> GeoResult
  now,                    \* Date.now(), in milliseconds
  lastNominatimRequest,   \* part_000: the shared timestamp of the rate limiter
  call,                   \* the calls of geocode() on the server
  parseInput,             \* a query text handed to parseQuery
  parseOutput,            \* what parseQuery returned for it
  exec,                   \* one call of executeQuery (src/lib/overpass.ts)
  arg,                    \* the argument of a call of one of the pure functions
  out,                    \* what the call returned, once it has returned
  okLog                   \* history: the successful responses, in the order they were given

vars ==
  <<req, searchCache, geoCache, now, lastNominatimRequest, call, parseInput, parseOutput,
    exec, arg, out, okLog>>

searchVars == <<req, searchCache, geoCache, okLog>>

rateVars == <<now, lastNominatimRequest, call>>

parseVars == <<parseInput, parseOutput>>

execVars == <<exec>>

fnVars == <<arg, out>>

(***************************************************************************)
(* src/app/api/search/route.ts: POST.  A request runs from one suspension  *)
(* point to the next in one step: from its arrival to the geocoder call or *)
(* the first endpoint request, from the geocoder's answer to the first     *)
(* endpoint request, and from one endpoint's answer to the next request or *)
(* to the response.  The fields from `steps` on record what the request    *)
(* did and are read by the properties only.                                *)
(***************************************************************************)
\* No endpoint has answered
NoAnswer == [k |-> "none", status |-> 0, elements |-> <<>>]

NoResponse == [status |-> 0, code |-> "", error |-> "", result |-> <<>>]

NoKey == [type |-> Null, operator |-> Null, region |-> Null, country |-> Null,
          near |-> Null, radius |-> 0]

IdleRequest ==
  [pc |-> "idle",
   body |-> [t |-> "undefined", query |-> <<>>],
   parsed |-> EmptyParsedQuery(<<>>),
   cacheKey |-> NoKey,
   locationQuery |-> Null,
   geoResult |-> NotFound,
   bbox |-> <<>>,
   overpassQuery |-> <<>>,
   i |-> 0,
   lastError |-> NoError,
   response |-> NoResponse,
   steps |-> 0,
   geocoderCalls |-> 0,
   contacted |-> <<>>,
   inFlight |-> {},
   lastAnswer |-> NoAnswer,
   searchReads |-> 0,
   searchWrites |-> 0,
   geoReads |-> 0,
   geoWrites |-> 0,
   logAt |-> 0,
   cause |-> "none",
   stages |-> <<>>]

ErrorResponse(status, code, error) ==
  [status |-> status, code |-> code, error |-> error, result |-> <<>>]

OkResponse(result) == [status |-> 200, code |-> "", error |-> "", result |-> <<result>>]

\* The catch block without its first test: a rate limit is not recognised
CatchResponse_NoRateLimit(error) ==
  IF includes(error.message, <<"aborted">>) \/ includes(error.message, <<"timeout">>)
    THEN ErrorResponse(504, "TIMEOUT", "Request timed out. Try a smaller search area.")
  ELSE ErrorResponse(500, "INTERNAL_ERROR", "An unexpected error occurred")

\* The catch block of POST: the response for an exception
CatchResponse(error) ==
  IF includes(error.message, <<"Rate", "limited">>)
    THEN ErrorResponse(429, "RATE_LIMITED",
                       "Service temporarily unavailable. Please try again in a moment.")
  ELSE IF includes(error.message, <<"aborted">>) \/ includes(error.message, <<"timeout">>)
    THEN ErrorResponse(504, "TIMEOUT", "Request timed out. Try a smaller search area.")
  ELSE ErrorResponse(500, "INTERNAL_ERROR", "An unexpected error occurred")

\* A cache key that also holds the text of the query
CacheKeyOf_WithRaw(parsed) ==
  [type |-> parsed.type, operator |-> parsed.operator, region |-> parsed.region,
   country |-> parsed.country, near |-> parsed.near, radius |-> parsed.radius,
   raw |-> parsed.raw]

\* `const cacheKey = {type, operator, region, country, near, radius}`
CacheKeyOf(parsed) ==
  [type |-> parsed.type, operator |-> parsed.operator, region |-> parsed.region,
   country |-> parsed.country, near |-> parsed.near, radius |-> parsed.radius]

\* `parsed.near || parsed.region || parsed.country`
LocationQueryOf(parsed) ==
  IF Truthy(parsed.near) THEN parsed.near
  ELSE IF Truthy(parsed.region) THEN parsed.region
  ELSE parsed.country

\* The stages of a request, in the order of the lines of POST that run them;
\* a request's `stages` lists the ones it has entered so far
StageOrder ==
  <<"parse", "validate", "searchLookup", "geoLookup", "geocode", "geometry", "build",
    "execute", "aggregate", "searchStore">>

Stage(r, name) == [r EXCEPT !.stages = Append(@, name)]

Finish(r, response, cause) ==
  [r EXCEPT !.pc = "done", !.response = response, !.cause = cause, !.inFlight = @ \ {r.i}]

\* Lines 77-106: the geometry, the query and the first endpoint request
StartQuery(r, geoResult) ==
  LET parsed == r.parsed
      bbox == IF Truthy(parsed.near)
                THEN calculateBoundingBox(geoResult.lat, geoResult.lon, parsed.radius)
                ELSE geoResult.boundingBox
      areaId == IF ~Truthy(parsed.near) /\ geoResult.osmType # ""
                   /\ TruthyNumber(geoResult.osmId)
                  THEN osmIdToAreaId(geoResult.osmType, geoResult.osmId)
                  ELSE NoArea
      built == IF Truthy(parsed.type)
                 THEN buildOverpassQuery(parsed.type, bbox, parsed.operator, areaId)
                 ELSE buildMultiTypeQuery(bbox, parsed.operator, areaId)
      r1 == Stage([r EXCEPT !.geoResult = geoResult, !.bbox = bbox], "geometry")
      r2 == Stage(r1, "build")
  IN  IF ~Truthy(parsed.type) /\ ~Truthy(parsed.operator)
        THEN Finish(r1, ErrorResponse(400, "INSUFFICIENT_FILTERS",
                                      "Either asset type or operator must be specified"),
                    "validation")
      ELSE IF built.threw THEN Finish(r2, CatchResponse(built.error), "exception")
      ELSE [Stage(r2, "execute") EXCEPT !.pc = "fetching", !.overpassQuery = built.query,
                                        !.i = 1, !.contacted = <<1>>, !.inFlight = {1}]

\* The lookups without the one in the search cache (lines 48-52 left out)
Lookup_NoSearchCache(r, sCache, gCache) ==
  LET parsed == r.parsed
      cacheKey == CacheKeyOf(parsed)
      locationQuery == LocationQueryOf(parsed)
      r1 == [r EXCEPT !.cacheKey = cacheKey]
      r2 == [r1 EXCEPT !.locationQuery = locationQuery, !.geoReads = 1]
  IN  IF ~Truthy(locationQuery)
        THEN Finish(r1, ErrorResponse(400, "MISSING_LOCATION", "Geographic scope is required"),
                    "validation")
      ELSE IF CacheHas(gCache, locationQuery) THEN StartQuery(r2, gCache[locationQuery])
      ELSE [r2 EXCEPT !.pc = "geocoding", !.geocoderCalls = 1]

\* The lookups without the one in the geo cache: every miss of the search
\* cache calls the geocoder
Lookup_NoGeoCache(r, sCache, gCache) ==
  LET parsed == r.parsed
      cacheKey == CacheKeyOf(parsed)
      locationQuery == LocationQueryOf(parsed)
      r1 == Stage([r EXCEPT !.cacheKey = cacheKey, !.searchReads = 1], "searchLookup")
      r2 == [r1 EXCEPT !.locationQuery = locationQuery]
  IN  IF CacheHas(sCache, cacheKey) THEN Finish(r1, OkResponse(sCache[cacheKey]), "hit")
      ELSE IF ~Truthy(locationQuery)
        THEN Finish(r1, ErrorResponse(400, "MISSING_LOCATION", "Geographic scope is required"),
                    "validation")
      ELSE [Stage(r2, "geocode") EXCEPT !.pc = "geocoding", !.geocoderCalls = 1]

\* The geo cache consulted before the search cache
Lookup_GeoFirst(r, sCache, gCache) ==
  LET parsed == r.parsed
      cacheKey == CacheKeyOf(parsed)
      locationQuery == LocationQueryOf(parsed)
      r1 == Stage([r EXCEPT !.locationQuery = locationQuery, !.geoReads = 1], "geoLookup")
      r2 == Stage([r1 EXCEPT !.cacheKey = cacheKey, !.searchReads = 1], "searchLookup")
  IN  IF ~Truthy(locationQuery)
        THEN Finish(r, ErrorResponse(400, "MISSING_LOCATION", "Geographic scope is required"),
                    "validation")
      ELSE IF CacheHas(sCache, cacheKey) THEN Finish(r2, OkResponse(sCache[cacheKey]), "hit")
      ELSE IF CacheHas(gCache, locationQuery) THEN StartQuery(r2, gCache[locationQuery])
      ELSE [Stage(r2, "geocode") EXCEPT !.pc = "geocoding", !.geocoderCalls = 1]

\* Lines 40-75, after the validation: the two cache lookups
Lookup(r, sCache, gCache) ==
  LET parsed == r.parsed
      cacheKey == CacheKeyOf(parsed)
      locationQuery == LocationQueryOf(parsed)
      r1 == Stage([r EXCEPT !.cacheKey = cacheKey, !.searchReads = 1], "searchLookup")
      r2 == Stage([r1 EXCEPT !.locationQuery = locationQuery, !.geoReads = 1], "geoLookup")
  IN  IF CacheHas(sCache, cacheKey) THEN Finish(r1, OkResponse(sCache[cacheKey]), "hit")
      ELSE IF ~Truthy(locationQuery)
        THEN Finish(r1, ErrorResponse(400, "MISSING_LOCATION", "Geographic scope is required"),
                    "validation")
      ELSE IF CacheHas(gCache, locationQuery) THEN StartQuery(r2, gCache[locationQuery])
      ELSE [Stage(r2, "geocode") EXCEPT !.pc = "geocoding", !.geocoderCalls = 1]

\* The validator consulted after the search cache instead of before it
Validated_LookupFirst(r, sCache, gCache) ==
  LET validation == validateQuery(r.parsed)
      cacheKey == CacheKeyOf(r.parsed)
      r1 == [r EXCEPT !.cacheKey = cacheKey, !.searchReads = 1]
  IN  IF CacheHas(sCache, cacheKey) THEN Finish(r1, OkResponse(sCache[cacheKey]), "hit")
      ELSE IF ~validation.valid
        THEN Finish(r1, ErrorResponse(400, "INVALID_QUERY", validation.error), "validation")
      ELSE Lookup(r, sCache, gCache)

\* Lines 31-38 and on: the validator on the parsed query, then the lookups
Validated(r, sCache, gCache) ==
  LET validation == validateQuery(r.parsed)
      r1 == Stage(r, "validate")
  IN  IF ~validation.valid
        THEN Finish(r1, ErrorResponse(400, "INVALID_QUERY", validation.error), "validation")
      ELSE Lookup(r1, sCache, gCache)

\* Lines 13-38: the body, the length bound, the parser and the validator
Validate(r, sCache, gCache) ==
  IF r.body.t = "malformed"
    THEN Finish(r, CatchResponse(Error(<<"Unexpected", "token">>)), "exception")
  ELSE IF r.body.t # "string" \/ Len(r.body.query) = 0
    THEN Finish(r, ErrorResponse(400, "MISSING_QUERY", "Query parameter is required"),
                "validation")
  ELSE IF Len(r.body.query) > MAX_QUERY_LENGTH
    THEN Finish(r, ErrorResponse(400, "QUERY_TOO_LONG", "Query too long"), "validation")
  ELSE Validated(Stage([r EXCEPT !.parsed = Parsed[r.body.query]], "parse"), sCache, gCache)

\* The six parsed fields of a query
SixFields(parsed) ==
  <<parsed.type, parsed.operator, parsed.region, parsed.country, parsed.near, parsed.radius>>

\* The history after request r has answered
Logged(log, r) ==
  IF r.pc = "done" /\ r.response.status = 200
    THEN Append(log, [text |-> r.body.query, fields |-> SixFields(r.parsed),
                      result |-> r.response.result[1], cause |-> r.cause])
    ELSE log

\* A request arrives with a body and runs to its first suspension point.
Receive(id, body) ==
  /\ req[id].pc = "idle"
  /\ req' = [req EXCEPT ![id] =
       Validate([req[id] EXCEPT !.body = body, !.steps = 1, !.logAt = Len(okLog)],
                searchCache, geoCache)]
  /\ okLog' = Logged(okLog, req'[id])
  /\ UNCHANGED <<searchCache, geoCache>>
  /\ UNCHANGED rateVars
  /\ UNCHANGED parseVars
  /\ UNCHANGED fnVars
  /\ UNCHANGED execVars

\* The geocoder answers, and a place that was not found is cached as well
GeocoderReturns_CachesNotFound(id, answer) ==
  LET r == [req[id] EXCEPT !.steps = @ + 1]
      geoResult == resolveLocation(answer.results)
  IN  /\ req[id].pc = "geocoding"
      /\ IF answer.k = "status"
           THEN /\ req' = [req EXCEPT ![id] =
                      Finish(r, CatchResponse(Error(<<"Nominatim", "request", "failed:", "503">>)),
                             "geocoder")]
                /\ UNCHANGED geoCache
         ELSE IF answer.k = "abort"
           THEN /\ req' = [req EXCEPT ![id] =
                      Finish(r, CatchResponse(Error(<<"This", "operation", "was", "aborted">>)),
                             "geocoder")]
                /\ UNCHANGED geoCache
         ELSE IF ~geoResult.found
           THEN /\ req' = [req EXCEPT ![id] =
                      Finish(r, ErrorResponse(400, "LOCATION_NOT_FOUND", "Could not resolve location"),
                             "notfound")]
                /\ geoCache' = CachePut(geoCache, r.locationQuery, geoResult)
         ELSE /\ req' = [req EXCEPT ![id] = StartQuery([r EXCEPT !.geoWrites = 1], geoResult)]
              /\ geoCache' = CachePut(geoCache, r.locationQuery, geoResult)
      /\ UNCHANGED <<searchCache, okLog>>
      /\ UNCHANGED rateVars
      /\ UNCHANGED parseVars
      /\ UNCHANGED fnVars
      /\ UNCHANGED execVars

\* The geocoder answers, and the place found is not cached (line 74 left out)
GeocoderReturns_StoresNothing(id, answer) ==
  LET r == [req[id] EXCEPT !.steps = @ + 1]
      geoResult == resolveLocation(answer.results)
  IN  /\ req[id].pc = "geocoding"
      /\ IF answer.k = "status"
           THEN /\ req' = [req EXCEPT ![id] =
                      Finish(r, CatchResponse(Error(<<"Nominatim", "request", "failed:", "503">>)),
                             "geocoder")]
                /\ UNCHANGED geoCache
         ELSE IF answer.k = "abort"
           THEN /\ req' = [req EXCEPT ![id] =
                      Finish(r, CatchResponse(Error(<<"This", "operation", "was", "aborted">>)),
                             "geocoder")]
                /\ UNCHANGED geoCache
         ELSE IF ~geoResult.found
           THEN /\ req' = [req EXCEPT ![id] =
                      Finish(r, ErrorResponse(400, "LOCATION_NOT_FOUND", "Could not resolve location"),
                             "notfound")]
                /\ UNCHANGED geoCache
         ELSE /\ req' = [req EXCEPT ![id] = StartQuery([r EXCEPT !.geoWrites = 1], geoResult)]
              /\ UNCHANGED geoCache
      /\ UNCHANGED <<searchCache, okLog>>
      /\ UNCHANGED rateVars
      /\ UNCHANGED parseVars
      /\ UNCHANGED fnVars
      /\ UNCHANGED execVars

\* The geocoder answers (lines 65-75, then lines 77-106).
GeocoderReturns(id, answer) ==
  LET r == [req[id] EXCEPT !.steps = @ + 1]
      geoResult == resolveLocation(answer.results)
  IN  /\ req[id].pc = "geocoding"
      /\ IF answer.k = "status"
           THEN /\ req' = [req EXCEPT ![id] =
                      Finish(r, CatchResponse(Error(<<"Nominatim", "request", "failed:", "503">>)),
                             "geocoder")]
                /\ UNCHANGED geoCache
         ELSE IF answer.k = "abort"
           THEN /\ req' = [req EXCEPT ![id] =
                      Finish(r, CatchResponse(Error(<<"This", "operation", "was", "aborted">>)),
                             "geocoder")]
                /\ UNCHANGED geoCache
         ELSE IF ~geoResult.found
           THEN /\ req' = [req EXCEPT ![id] =
                      Finish(r, ErrorResponse(400, "LOCATION_NOT_FOUND", "Could not resolve location"),
                             "notfound")]
                /\ UNCHANGED geoCache
         ELSE /\ req' = [req EXCEPT ![id] = StartQuery([r EXCEPT !.geoWrites = 1], geoResult)]
              /\ geoCache' = CachePut(geoCache, r.locationQuery, geoResult)
      /\ UNCHANGED <<searchCache, okLog>>
      /\ UNCHANGED rateVars
      /\ UNCHANGED parseVars
      /\ UNCHANGED fnVars
      /\ UNCHANGED execVars

\* executeQuery without its `continue`: the first failure is thrown
ExecuteStep_NoFailover(r, resp) ==
  LET failure == FailureOf(resp, OVERPASS_APIS[r.i])
  IN  IF resp.k = "ok"
        THEN [kind |-> "return", assets |-> NormalizeElements(resp.elements),
              lastError |-> r.lastError, i |-> r.i]
      ELSE [kind |-> "throw", assets |-> <<>>, lastError |-> failure, i |-> r.i]

\* executeQuery keeping the first failure in lastError instead of the latest
ExecuteStep_FirstError(r, resp) ==
  LET last == r.i >= Len(OVERPASS_APIS)
      failure == IF r.lastError = NoError THEN FailureOf(resp, OVERPASS_APIS[r.i])
                 ELSE r.lastError
  IN  IF resp.k = "ok"
        THEN [kind |-> "return", assets |-> NormalizeElements(resp.elements),
              lastError |-> r.lastError, i |-> r.i]
      ELSE IF ~last
        THEN [kind |-> "continue", assets |-> <<>>, lastError |-> failure, i |-> r.i + 1]
      ELSE [kind |-> "throw", assets |-> <<>>, lastError |-> failure, i |-> r.i]

\* executeQuery asking the first endpoint a second time after its failure
ExecuteStep_Retries(r, resp) ==
  LET last == r.i >= Len(OVERPASS_APIS)
      failure == FailureOf(resp, OVERPASS_APIS[r.i])
  IN  IF resp.k = "ok"
        THEN [kind |-> "return", assets |-> NormalizeElements(resp.elements),
              lastError |-> r.lastError, i |-> r.i]
      ELSE IF ~last
        THEN [kind |-> "continue", assets |-> <<>>, lastError |-> failure,
              i |-> IF r.lastError = NoError THEN r.i ELSE r.i + 1]
      ELSE [kind |-> "throw", assets |-> <<>>, lastError |-> failure, i |-> r.i]

\* executeQuery returning no assets, instead of throwing, when the last
\* endpoint has failed
ExecuteStep_SwallowsLast(r, resp) ==
  LET last == r.i >= Len(OVERPASS_APIS)
      failure == FailureOf(resp, OVERPASS_APIS[r.i])
  IN  IF resp.k = "ok"
        THEN [kind |-> "return", assets |-> NormalizeElements(resp.elements),
              lastError |-> r.lastError, i |-> r.i]
      ELSE IF ~last
        THEN [kind |-> "continue", assets |-> <<>>, lastError |-> failure, i |-> r.i + 1]
      ELSE [kind |-> "return", assets |-> <<>>, lastError |-> failure, i |-> r.i]

\* executeQuery that takes a success status for a success: a body that cannot
\* be parsed counts as an answer without elements
ExecuteStep_TrustsStatus(r, resp) ==
  LET last == r.i >= Len(OVERPASS_APIS)
      failure == FailureOf(resp, OVERPASS_APIS[r.i])
  IN  IF resp.k \in {"ok", "badbody"}
        THEN [kind |-> "return", assets |-> NormalizeElements(resp.elements),
              lastError |-> r.lastError, i |-> r.i]
      ELSE IF ~last
        THEN [kind |-> "continue", assets |-> <<>>, lastError |-> failure, i |-> r.i + 1]
      ELSE [kind |-> "throw", assets |-> <<>>, lastError |-> failure, i |-> r.i]

\* executeQuery, one turn of its loop: endpoint i has answered.  The result
\* is the assets returned, the error thrown, or the request to the next
\* endpoint.
ExecuteStep(r, resp) ==
  LET last == r.i >= Len(OVERPASS_APIS)
      failure == FailureOf(resp, OVERPASS_APIS[r.i])
  IN  IF resp.k = "ok"
        THEN [kind |-> "return", assets |-> NormalizeElements(resp.elements),
              lastError |-> r.lastError, i |-> r.i]
      ELSE IF ~last
        THEN [kind |-> "continue", assets |-> <<>>, lastError |-> failure, i |-> r.i + 1]
      ELSE [kind |-> "throw", assets |-> <<>>, lastError |-> failure, i |-> r.i]

\* A result whose statistics are not those of its assets
BuildResult_EmptyStats(r, assets) ==
  [results |-> assets, stats |-> calculateStats(<<>>), bounds |-> r.bbox, query |-> r.parsed]

\* Lines 107-118: the statistics, the result, the cache store
BuildResult(r, assets) ==
  [results |-> assets, stats |-> calculateStats(assets), bounds |-> r.bbox, query |-> r.parsed]

\* An endpoint answers (lines 106-118 of route.ts around executeQuery).
EndpointReturns(id, resp) ==
  LET r0 == req[id]
      step == ExecuteStep(r0, resp)
      r == [r0 EXCEPT !.steps = @ + 1,
                      !.lastAnswer = resp,
                      !.lastError = step.lastError,
                      !.i = step.i]
      result == BuildResult(r, step.assets)
  IN  /\ r0.pc = "fetching"
      /\ CASE step.kind = "return" ->
                /\ req' = [req EXCEPT ![id] =
                     Finish([r EXCEPT !.searchWrites = 1,
                                      !.stages = @ \o <<"aggregate", "searchStore">>],
                            OkResponse(result), "success")]
                /\ searchCache' = CachePut(searchCache, r.cacheKey, result)
           [] step.kind = "continue" ->
                /\ req' = [req EXCEPT ![id] =
                     [r EXCEPT !.contacted = Append(@, step.i),
                               !.inFlight = (@ \ {r0.i}) \cup {step.i}]]
                /\ UNCHANGED searchCache
           [] step.kind = "throw" ->
                /\ req' = [req EXCEPT ![id] = Finish(r, CatchResponse(step.lastError), "exhausted")]
                /\ UNCHANGED searchCache
      /\ okLog' = Logged(okLog, req'[id])
      /\ UNCHANGED geoCache
      /\ UNCHANGED rateVars
      /\ UNCHANGED parseVars
      /\ UNCHANGED fnVars
      /\ UNCHANGED execVars

(***************************************************************************)
(* src/lib/overpass.ts: one call of executeQuery on its own, with the      *)
(* answer of every endpoint it asked kept in `outcomes`.                   *)
(***************************************************************************)
IdleExec ==
  [pc |-> "idle", i |-> 0, lastError |-> NoError, contacted |-> <<>>, inFlight |-> {},
   outcomes |-> <<>>, assets |-> <<>>]

\* executeQuery is called: the first turn of the loop up to its fetch
CallExecuteQuery ==
  /\ exec.pc = "idle"
  /\ exec' = [exec EXCEPT !.pc = "fetching", !.i = 1, !.contacted = <<1>>, !.inFlight = {1}]
  /\ UNCHANGED searchVars
  /\ UNCHANGED rateVars
  /\ UNCHANGED parseVars
  /\ UNCHANGED fnVars

\* The endpoint asked has answered: the rest of this turn of the loop and, if
\* the loop continues, the next turn up to its fetch
ExecuteQueryStep(resp) ==
  LET step == ExecuteStep(exec, resp)
      e == [exec EXCEPT !.outcomes = Append(@, resp),
                        !.lastError = step.lastError,
                        !.i = step.i,
                        !.inFlight = @ \ {exec.i}]
  IN  /\ exec.pc = "fetching"
      /\ exec' = CASE step.kind = "return" ->
                       [e EXCEPT !.pc = "returned", !.assets = step.assets]
                  [] step.kind = "continue" ->
                       [e EXCEPT !.contacted = Append(@, step.i), !.inFlight = @ \cup {step.i}]
                  [] step.kind = "throw" -> [e EXCEPT !.pc = "thrown"]
      /\ UNCHANGED searchVars
      /\ UNCHANGED rateVars
      /\ UNCHANGED parseVars
      /\ UNCHANGED fnVars

(***************************************************************************)
(* src/unnamed/part_000: waitForRateLimit, as geocode() calls it on the    *)
(* server.  A call reads the clock and the shared timestamp when it        *)
(* enters; if it has to wait it sets a timer, and when the timer has fired *)
(* it stores the clock in the shared timestamp and sends its request.      *)
(***************************************************************************)
\* Number of calls of geocode(), which may overlap
NumCalls == 3

Calls == 1..NumCalls

\* Date.now() when the first call arrives, and how far the model's clock
\* moves in one step and in all
StartTime == 5000

TickMs == 250

MaxTicks == 10

IdleCall == [pc |-> "idle", enteredAt |-> 0, wakeAt |-> 0, sentAt |-> 0]

\* Lines 18-26 up to the await, or to the end when there is nothing to wait for
EnterRateLimit(c) ==
  LET timeSinceLastRequest == now - lastNominatimRequest
      waitTime == NOMINATIM_MIN_INTERVAL - timeSinceLastRequest
  IN  /\ call[c].pc = "idle"
      /\ IF timeSinceLastRequest < NOMINATIM_MIN_INTERVAL
           THEN /\ call' = [call EXCEPT ![c] = [pc |-> "waiting", enteredAt |-> now,
                                                 wakeAt |-> now + waitTime, sentAt |-> 0]]
                /\ UNCHANGED lastNominatimRequest
           ELSE /\ call' = [call EXCEPT ![c] = [pc |-> "sent", enteredAt |-> now,
                                                 wakeAt |-> now, sentAt |-> now]]
                /\ lastNominatimRequest' = now
      /\ UNCHANGED now
      /\ UNCHANGED searchVars
      /\ UNCHANGED parseVars
      /\ UNCHANGED fnVars
      /\ UNCHANGED execVars

\* The timer has fired and the request is sent, but line 26 is left out
TimerFires_KeepsTimestamp(c) ==
  /\ call[c].pc = "waiting"
  /\ now >= call[c].wakeAt
  /\ call' = [call EXCEPT ![c].pc = "sent", ![c].sentAt = now]
  /\ UNCHANGED lastNominatimRequest
  /\ UNCHANGED now
  /\ UNCHANGED searchVars
  /\ UNCHANGED parseVars
  /\ UNCHANGED fnVars
  /\ UNCHANGED execVars

\* The timer of setTimeout(resolve, waitTime) has fired: line 26, and the
\* request is sent
TimerFires(c) ==
  /\ call[c].pc = "waiting"
  /\ now >= call[c].wakeAt
  /\ call' = [call EXCEPT ![c].pc = "sent", ![c].sentAt = now]
  /\ lastNominatimRequest' = now
  /\ UNCHANGED now
  /\ UNCHANGED searchVars
  /\ UNCHANGED parseVars
  /\ UNCHANGED fnVars
  /\ UNCHANGED execVars

\* Time passes
Tick ==
  /\ now + TickMs <= StartTime + MaxTicks * TickMs
  /\ now' = now + TickMs
  /\ UNCHANGED <<lastNominatimRequest, call>>
  /\ UNCHANGED searchVars
  /\ UNCHANGED parseVars
  /\ UNCHANGED fnVars
  /\ UNCHANGED execVars

\* A call that enters waitForRateLimit when no other call is inside it, and
\* early enough for the model's clock to reach the end of its wait
EnterRateLimitAlone(c) ==
  /\ \A d \in Calls : call[d].pc # "waiting"
  /\ now + NOMINATIM_MIN_INTERVAL <= StartTime + MaxTicks * TickMs
  /\ EnterRateLimit(c)

(***************************************************************************)
(* parseQuery on query texts that state a radius, or none                  *)
(***************************************************************************)
MaxDigits == 3

RadiusDigits == {"0", "1", "5"}

RECURSIVE DigitStrings(_)
DigitStrings(n) ==
  IF n = 0 THEN {<<>>}
  ELSE LET shorter == DigitStrings(n - 1)
       IN  shorter \cup {Append(s, d) : s \in {t \in shorter : Len(t) = n - 1}, d \in RadiusDigits}

W_StructuredHead ==
  <<"t", "y", "p", "e", ":", "a", "i", "r", "p", "o", "r", "t", " ",
    "n", "e", "a", "r", ":", "g", "o", "a">>

W_NaturalHead ==
  <<"a", "i", "r", "p", "o", "r", "t", "s", " ", "n", "e", "a", "r", " ", "g", "o", "a">>

W_RadiusKey == <<"r", "a", "d", "i", "u", "s", ":">>

W_Within == <<"w", "i", "t", "h", "i", "n">>

W_Radius == <<"r", "a", "d", "i", "u", "s">>

W_Km == <<"k", "m">>

W_Kilometers == <<" ", "k", "i", "l", "o", "m", "e", "t", "e", "r", "s">>

W_Abc == <<"a", "b", "c">>

\* The ways the model writes the radius n (a run of digits) into a text
StructuredForms(n) ==
  {W_StructuredHead \o <<" ">> \o W_RadiusKey \o n,
   W_RadiusKey \o n \o <<" ">> \o W_StructuredHead,
   W_StructuredHead \o <<" ", "R", "a", "d", "i", "u", "s", ":">> \o n \o W_Km}

NaturalForms(n) ==
  {W_NaturalHead \o <<" ">> \o W_Within \o <<" ">> \o n,
   W_NaturalHead \o <<" ">> \o W_Within \o <<" ">> \o n \o W_Km,
   W_NaturalHead \o <<" ">> \o W_Radius \o <<"=">> \o n,
   W_NaturalHead \o <<" ">> \o W_Radius \o <<":", " ">> \o n \o W_Kilometers}

\* Texts without a radius, or with one that is not a number
StructuredNoRadius ==
  {W_StructuredHead,
   W_StructuredHead \o <<" ">> \o W_RadiusKey \o W_Abc,
   W_StructuredHead \o <<" ">> \o W_RadiusKey \o <<"-", "5">>}

NaturalNoRadius ==
  {W_NaturalHead,
   W_NaturalHead \o <<" ">> \o W_Within \o <<" ">> \o W_Abc}

\* Texts that begin with a field prefix, in either case and behind blanks
PrefixedTexts ==
  {<<"t", "y", "p", "e", ":", "a", "i", "r", "p", "o", "r", "t", " ", "r", "e", "g", "i", "o", "n", ":", "g", "o", "a">>,
   <<"T", "Y", "P", "E", ":", "a", "i", "r", "p", "o", "r", "t", " ", "r", "e", "g", "i", "o", "n", ":", "g", "o", "a">>,
   <<" ", " ", "T", "y", "p", "e", ":", "A", "i", "r", "p", "o", "r", "t", " ", "R", "E", "G", "I", "O", "N", ":", "g", "o", "a", " ", "	">>,
   <<"o", "p", "e", "r", "a", "t", "o", "r", ":", "j", "i", "o", " ", "c", "o", "u", "n", "t", "r", "y", ":", "g", "o", "a">>,
   <<"R", "e", "g", "i", "o", "n", ":", "g", "o", "a", " ", "t", "y", "p", "e", ":", "a", "i", "r", "p", "o", "r", "t">>,
   <<"c", "o", "u", "n", "t", "r", "y", ":", "i", "n", "d", "i", "a", " ", "t", "y", "p", "e", ":", "a", "i", "r", "p", "o", "r", "t">>,
   <<"N", "E", "A", "R", ":", "g", "o", "a", " ", "t", "y", "p", "e", ":", "a", "i", "r", "p", "o", "r", "t">>,
   <<"r", "a", "d", "i", "u", "s", ":", "a", "b", "c", " ", "t", "y", "p", "e", ":", "a", "i", "r", "p", "o", "r", "t", " ", "n", "e", "a", "r", ":", "g", "o", "a">>,
   <<"t", "y", "p", "e", ":">>,
   <<"n", "e", "a", "r", ":", "g", "o", "a", " ", "t", "o", "w", "e", "r", "s", " ", "i", "n", " ", "i", "n", "d", "i", "a">>}

\* Texts whose key:value tokens come after a leading word, or whose first
\* word is not quite a field prefix
UnprefixedTexts ==
  {<<"t", "o", "w", "e", "r", "s", " ", "t", "y", "p", "e", ":", "a", "i", "r", "p", "o", "r", "t", " ", "r", "e", "g", "i", "o", "n", ":", "g", "o", "a">>,
   <<"t", "y", "p", "e", " ", "a", "i", "r", "p", "o", "r", "t", " ", "r", "e", "g", "i", "o", "n", ":", "g", "o", "a">>,
   <<"x", "t", "y", "p", "e", ":", "a", "i", "r", "p", "o", "r", "t", " ", "c", "o", "u", "n", "t", "r", "y", ":", "g", "o", "a">>,
   <<"t", "y", "p", "e", " ", ":", "a", "i", "r", "p", "o", "r", "t", " ", "c", "o", "u", "n", "t", "r", "y", ":", "g", "o", "a">>,
   <<"a", "i", "r", "p", "o", "r", "t", "s", " ", "o", "p", "e", "r", "a", "t", "o", "r", ":", "j", "i", "o", " ", "c", "o", "u", "n", "t", "r", "y", ":", "g", "o", "a">>,
   <<"i", "n", " ", "r", "e", "g", "i", "o", "n", ":", "g", "o", "a", " ", "t", "y", "p", "e", ":", "a", "i", "r", "p", "o", "r", "t">>,
   <<"t", "y", "p", "e", "s", ":", "a", "i", "r", "p", "o", "r", "t", " ", "r", "e", "g", "i", "o", "n", ":", "g", "o", "a">>,
   <<":", "t", "y", "p", "e", ":", "a", "i", "r", "p", "o", "r", "t", " ", "r", "e", "g", "i", "o", "n", ":", "g", "o", "a">>}

\* Natural texts `<what> in <place>` and `<what> near <place>`
LocationHeads ==
  {<<"t", "e", "l", "e", "c", "o", "m", " ", "t", "o", "w", "e", "r", "s">>,
   <<"a", "i", "r", "p", "o", "r", "t", "s">>,
   <<"s", "h", "o", "w", " ", "j", "i", "o", " ", "t", "o", "w", "e", "r", "s">>}

LocationPlaces ==
  {<<"k", "a", "r", "n", "a", "t", "a", "k", "a">>,
   <<"g", "o", "a">>,
   <<"v", "i", "r", "g", "i", "n", "i", "a">>,
   <<"t", "o", "w", "e", "r", " ", "h", "a", "m", "l", "e", "t", "s">>,
   <<"o", "r", "a", "n", "g", "e", " ", "c", "o", "u", "n", "t", "y">>,
   <<"n", "e", "w", " ", "i", "n", "d", "i", "a">>}

LocationInputs ==
  {[mode |-> "natural", digits |-> <<>>, word |-> w, place |-> x,
    text |-> h \o <<" ">> \o w \o <<" ">> \o x] :
      h \in LocationHeads, w \in {<<"i", "n">>, <<"n", "e", "a", "r">>}, x \in LocationPlaces}

\* For each rule of TYPE_PATTERNS (by its position in the list), the phrases
\* its pattern spells out: every alternative, every optional group present
\* and absent, one blank for \s*, the singular for an optional plural
TypePhrases ==
  {<<1, <<"c", "o", "m", "m", "u", "n", "i", "c", "a", "t", "i", "o", "n", " ", "m", "a", "s", "t">>>>,
   <<1, <<"c", "o", "m", "m", "u", "n", "i", "c", "a", "t", "i", "o", "n", " ", "t", "o", "w", "e", "r">>>>,
   <<1, <<"t", "e", "l", "e", "c", "o", "m", " ", "m", "a", "s", "t">>>>,
   <<1, <<"t", "e", "l", "e", "c", "o", "m", " ", "t", "o", "w", "e", "r">>>>,
   <<2, <<"t", "o", "w", "e", "r">>>>,
   <<3, <<"d", "a", "t", "a", " ", "c", "e", "n", "t", "e", "r">>>>,
   <<3, <<"d", "a", "t", "a", " ", "c", "e", "n", "t", "r", "e">>>>,
   <<4, <<"p", "o", "w", "e", "r", " ", "p", "l", "a", "n", "t">>>>,
   <<4, <<"p", "o", "w", "e", "r", " ", "s", "t", "a", "t", "i", "o", "n">>>>,
   <<5, <<"s", "u", "b", "s", "t", "a", "t", "i", "o", "n">>>>,
   <<6, <<"p", "o", "r", "t">>>>,
   <<7, <<"h", "a", "r", "b", "o", "r">>>>,
   <<8, <<"w", "a", "r", "e", "h", "o", "u", "s", "e">>>>,
   <<9, <<"a", "i", "r", "p", "o", "r", "t">>>>,
   <<10, <<"h", "e", "l", "i", "p", "a", "d">>>>,
   <<11, <<"r", "a", "i", "l", " ", "y", "a", "r", "d">>>>,
   <<11, <<"r", "a", "i", "l", "w", "a", "y", " ", "y", "a", "r", "d">>>>,
   <<12, <<"r", "e", "f", "i", "n", "e", "r", "i", "e", "s">>>>,
   <<12, <<"r", "e", "f", "i", "n", "e", "r", "y">>>>,
   <<13, <<"p", "i", "p", "e", "l", "i", "n", "e">>>>,
   <<14, <<"s", "o", "l", "a", "r", " ", "f", "a", "r", "m">>>>,
   <<14, <<"s", "o", "l", "a", "r", " ", "p", "a", "n", "e", "l">>>>,
   <<14, <<"s", "o", "l", "a", "r", " ", "p", "l", "a", "n", "t">>>>,
   <<15, <<"w", "i", "n", "d", " ", "f", "a", "r", "m">>>>,
   <<15, <<"w", "i", "n", "d", " ", "t", "u", "r", "b", "i", "n", "e">>>>,
   <<16, <<"n", "u", "c", "l", "e", "a", "r", " ", "p", "l", "a", "n", "t">>>>,
   <<16, <<"n", "u", "c", "l", "e", "a", "r", " ", "r", "e", "a", "c", "t", "o", "r">>>>,
   <<17, <<"d", "a", "m">>>>,
   <<18, <<"g", "e", "o", "t", "h", "e", "r", "m", "a", "l">>>>,
   <<18, <<"g", "e", "o", "t", "h", "e", "r", "m", "a", "l", " ", "e", "n", "e", "r", "g", "y">>>>,
   <<18, <<"g", "e", "o", "t", "h", "e", "r", "m", "a", "l", " ", "p", "l", "a", "n", "t">>>>,
   <<18, <<"g", "e", "o", "t", "h", "e", "r", "m", "a", "l", " ", "p", "o", "w", "e", "r">>>>,
   <<19, <<"b", "i", "o", "g", "a", "s">>>>,
   <<19, <<"b", "i", "o", "g", "a", "s", " ", "f", "a", "c", "i", "l", "i", "t", "y">>>>,
   <<19, <<"b", "i", "o", "g", "a", "s", " ", "p", "l", "a", "n", "t">>>>,
   <<20, <<"b", "i", "o", "m", "a", "s", "s">>>>,
   <<20, <<"b", "i", "o", "m", "a", "s", "s", " ", "f", "a", "c", "i", "l", "i", "t", "y">>>>,
   <<20, <<"b", "i", "o", "m", "a", "s", "s", " ", "p", "l", "a", "n", "t">>>>,
   <<20, <<"b", "i", "o", "m", "a", "s", "s", " ", "p", "o", "w", "e", "r">>>>,
   <<21, <<"t", "i", "d", "a", "l">>>>,
   <<21, <<"t", "i", "d", "a", "l", " ", "e", "n", "e", "r", "g", "y">>>>,
   <<21, <<"t", "i", "d", "a", "l", " ", "p", "l", "a", "n", "t">>>>,
   <<21, <<"t", "i", "d", "a", "l", " ", "p", "o", "w", "e", "r">>>>,
   <<22, <<"g", "a", "s", " ", "p", "l", "a", "n", "t">>>>,
   <<22, <<"g", "a", "s", " ", "p", "o", "w", "e", "r", " ", "p", "l", "a", "n", "t">>>>,
   <<22, <<"g", "a", "s", " ", "p", "o", "w", "e", "r", " ", "s", "t", "a", "t", "i", "o", "n">>>>,
   <<22, <<"g", "a", "s", " ", "s", "t", "a", "t", "i", "o", "n">>>>,
   <<23, <<"o", "i", "l", " ", "p", "l", "a", "n", "t">>>>,
   <<23, <<"o", "i", "l", " ", "p", "o", "w", "e", "r", " ", "p", "l", "a", "n", "t">>>>,
   <<23, <<"o", "i", "l", " ", "p", "o", "w", "e", "r", " ", "s", "t", "a", "t", "i", "o", "n">>>>,
   <<23, <<"o", "i", "l", " ", "s", "t", "a", "t", "i", "o", "n">>>>,
   <<24, <<"c", "o", "a", "l", " ", "p", "l", "a", "n", "t">>>>,
   <<24, <<"c", "o", "a", "l", " ", "p", "o", "w", "e", "r", " ", "p", "l", "a", "n", "t">>>>,
   <<24, <<"c", "o", "a", "l", " ", "p", "o", "w", "e", "r", " ", "s", "t", "a", "t", "i", "o", "n">>>>,
   <<24, <<"c", "o", "a", "l", " ", "s", "t", "a", "t", "i", "o", "n">>>>,
   <<25, <<"h", "y", "d", "r", "o">>>>,
   <<25, <<"h", "y", "d", "r", "o", " ", "d", "a", "m">>>>,
   <<25, <<"h", "y", "d", "r", "o", " ", "p", "l", "a", "n", "t">>>>,
   <<25, <<"h", "y", "d", "r", "o", " ", "p", "o", "w", "e", "r">>>>,
   <<25, <<"h", "y", "d", "r", "o", "e", "l", "e", "c", "t", "r", "i", "c">>>>,
   <<25, <<"h", "y", "d", "r", "o", "e", "l", "e", "c", "t", "r", "i", "c", " ", "d", "a", "m">>>>,
   <<25, <<"h", "y", "d", "r", "o", "e", "l", "e", "c", "t", "r", "i", "c", " ", "p", "l", "a", "n", "t">>>>,
   <<25, <<"h", "y", "d", "r", "o", "e", "l", "e", "c", "t", "r", "i", "c", " ", "p", "o", "w", "e", "r">>>>,
   <<26, <<"p", "o", "w", "e", "r", " ", "l", "i", "n", "e">>>>,
   <<27, <<"e", "l", "e", "c", "t", "r", "i", "c", " ", "p", "o", "l", "e">>>>,
   <<27, <<"e", "l", "e", "c", "t", "r", "i", "c", "i", "t", "y", " ", "p", "o", "l", "e">>>>,
   <<27, <<"p", "o", "w", "e", "r", " ", "p", "o", "l", "e">>>>,
   <<28, <<"t", "r", "a", "n", "s", "f", "o", "r", "m", "e", "r">>>>,
   <<29, <<"m", "i", "l", "i", "t", "a", "r", "y">>>>,
   <<29, <<"m", "i", "l", "i", "t", "a", "r", "y", " ", "b", "a", "s", "e">>>>,
   <<29, <<"m", "i", "l", "i", "t", "a", "r", "y", " ", "f", "a", "c", "i", "l", "i", "t", "y">>>>,
   <<29, <<"m", "i", "l", "i", "t", "a", "r", "y", " ", "i", "n", "s", "t", "a", "l", "l", "a", "t", "i", "o", "n">>>>,
   <<30, <<"p", "r", "i", "s", "o", "n">>>>,
   <<31, <<"h", "o", "s", "p", "i", "t", "a", "l">>>>,
   <<32, <<"e", "m", "b", "a", "s", "s", "i", "e", "s">>>>,
   <<32, <<"e", "m", "b", "a", "s", "s", "y">>>>,
   <<33, <<"f", "a", "c", "t", "o", "r", "i", "e", "s">>>>,
   <<33, <<"f", "a", "c", "t", "o", "r", "y">>>>,
   <<34, <<"i", "n", "d", "u", "s", "t", "r", "i", "a", "l", " ", "a", "r", "e", "a">>>>,
   <<34, <<"i", "n", "d", "u", "s", "t", "r", "i", "a", "l", " ", "p", "a", "r", "k">>>>,
   <<34, <<"i", "n", "d", "u", "s", "t", "r", "i", "a", "l", " ", "z", "o", "n", "e">>>>,
   <<35, <<"s", "c", "h", "o", "o", "l">>>>,
   <<36, <<"u", "n", "i", "v", "e", "r", "s", "i", "t", "i", "e", "s">>>>,
   <<36, <<"u", "n", "i", "v", "e", "r", "s", "i", "t", "y">>>>,
   <<37, <<"c", "o", "l", "l", "e", "g", "e">>>>,
   <<38, <<"s", "t", "a", "d", "i", "u", "m">>>>,
   <<39, <<"f", "i", "r", "e", " ", "s", "t", "a", "t", "i", "o", "n">>>>,
   <<40, <<"p", "o", "l", "i", "c", "e">>>>,
   <<40, <<"p", "o", "l", "i", "c", "e", " ", "s", "t", "a", "t", "i", "o", "n">>>>,
   <<41, <<"c", "o", "u", "r", "t", "h", "o", "u", "s">>>>,
   <<42, <<"b", "a", "n", "k">>>>,
   <<43, <<"a", "t", "m">>>>,
   <<44, <<"f", "u", "e", "l", " ", "s", "t", "a", "t", "i", "o", "n">>>>,
   <<44, <<"g", "a", "s", " ", "s", "t", "a", "t", "i", "o", "n">>>>,
   <<44, <<"p", "e", "t", "r", "o", "l", " ", "s", "t", "a", "t", "i", "o", "n">>>>,
   <<45, <<"c", "h", "a", "r", "g", "i", "n", "g", " ", "s", "t", "a", "t", "i", "o", "n">>>>,
   <<45, <<"e", "v", " ", "c", "h", "a", "r", "g", "i", "n", "g", " ", "s", "t", "a", "t", "i", "o", "n">>>>,
   <<46, <<"w", "a", "t", "e", "r", " ", "t", "o", "w", "e", "r">>>>,
   <<47, <<"w", "a", "t", "e", "r", " ", "t", "r", "e", "a", "t", "m", "e", "n", "t">>>>,
   <<47, <<"w", "a", "t", "e", "r", " ", "w", "o", "r", "k", "s">>>>,
   <<48, <<"s", "e", "w", "a", "g", "e">>>>,
   <<48, <<"s", "e", "w", "a", "g", "e", " ", "p", "l", "a", "n", "t">>>>,
   <<48, <<"s", "e", "w", "a", "g", "e", " ", "t", "r", "e", "a", "t", "m", "e", "n", "t">>>>,
   <<48, <<"w", "a", "s", "t", "e", "w", "a", "t", "e", "r">>>>,
   <<48, <<"w", "a", "s", "t", "e", "w", "a", "t", "e", "r", " ", "p", "l", "a", "n", "t">>>>,
   <<48, <<"w", "a", "s", "t", "e", "w", "a", "t", "e", "r", " ", "t", "r", "e", "a", "t", "m", "e", "n", "t">>>>,
   <<49, <<"l", "a", "n", "d", "f", "i", "l", "l">>>>,
   <<50, <<"m", "i", "n", "e">>>>,
   <<50, <<"q", "u", "a", "r", "r", "i", "e", "s">>>>,
   <<50, <<"q", "u", "a", "r", "r", "y">>>>,
   <<51, <<"o", "i", "l", " ", "w", "e", "l", "l">>>>,
   <<52, <<"g", "a", "s", " ", "w", "e", "l", "l">>>>,
   <<53, <<"s", "t", "o", "r", "a", "g", "e", " ", "t", "a", "n", "k">>>>,
   <<54, <<"s", "i", "l", "o">>>>,
   <<55, <<"c", "h", "i", "m", "n", "e", "y">>>>,
   <<55, <<"c", "h", "i", "m", "n", "e", "y", "s">>>>,
   <<56, <<"c", "o", "o", "l", "i", "n", "g", " ", "t", "o", "w", "e", "r">>>>,
   <<57, <<"l", "i", "g", "h", "t", "h", "o", "u", "s", "e">>>>,
   <<58, <<"r", "a", "d", "a", "r">>>>,
   <<59, <<"a", "n", "t", "e", "n", "n", "a">>>>,
   <<60, <<"m", "a", "s", "t">>>>,
   <<61, <<"b", "r", "i", "d", "g", "e">>>>,
   <<62, <<"t", "u", "n", "n", "e", "l">>>>,
   <<63, <<"f", "e", "r", "r", "i", "e", "s", " ", "t", "e", "r", "m", "i", "n", "a", "l">>>>,
   <<63, <<"f", "e", "r", "r", "y", " ", "t", "e", "r", "m", "i", "n", "a", "l">>>>,
   <<64, <<"b", "u", "s", " ", "s", "t", "a", "t", "i", "o", "n">>>>,
   <<65, <<"r", "a", "i", "l", "w", "a", "y", " ", "s", "t", "a", "t", "i", "o", "n">>>>,
   <<65, <<"t", "r", "a", "i", "n", " ", "s", "t", "a", "t", "i", "o", "n">>>>,
   <<66, <<"m", "e", "t", "r", "o">>>>,
   <<66, <<"m", "e", "t", "r", "o", " ", "s", "t", "a", "t", "i", "o", "n">>>>,
   <<67, <<"s", "u", "b", "w", "a", "y">>>>,
   <<67, <<"s", "u", "b", "w", "a", "y", " ", "s", "t", "a", "t", "i", "o", "n">>>>,
   <<68, <<"p", "a", "r", "k", "i", "n", "g">>>>,
   <<69, <<"c", "e", "m", "e", "t", "a", "r", "i", "e", "s">>>>,
   <<69, <<"c", "e", "m", "e", "t", "a", "r", "y">>>>,
   <<70, <<"m", "o", "s", "q", "u", "e">>>>,
   <<71, <<"c", "h", "u", "r", "c", "h">>>>,
   <<72, <<"t", "e", "m", "p", "l", "e">>>>,
   <<73, <<"s", "y", "n", "a", "g", "o", "g", "u", "e">>>>,
   <<74, <<"l", "i", "b", "r", "a", "r", "e", "s">>>>,
   <<74, <<"l", "i", "b", "r", "a", "r", "y">>>>,
   <<75, <<"m", "u", "s", "e", "u", "m">>>>,
   <<76, <<"t", "h", "e", "a", "t", "e", "r">>>>,
   <<76, <<"t", "h", "e", "a", "t", "r", "e">>>>,
   <<77, <<"c", "i", "n", "e", "m", "a">>>>,
   <<78, <<"h", "o", "t", "e", "l">>>>,
   <<79, <<"p", "h", "a", "r", "m", "a", "c", "e", "s">>>>,
   <<79, <<"p", "h", "a", "r", "m", "a", "c", "y">>>>,
   <<80, <<"c", "l", "i", "n", "i", "c">>>>,
   <<81, <<"d", "e", "n", "t", "i", "s", "t">>>>,
   <<82, <<"v", "e", "t">>>>,
   <<83, <<"v", "e", "t", "e", "r", "i", "n", "a", "r", "i", "e", "s">>>>,
   <<83, <<"v", "e", "t", "e", "r", "i", "n", "a", "r", "y">>>>,
   <<84, <<"p", "o", "s", "t", " ", "o", "f", "f", "i", "c", "e">>>>,
   <<84, <<"p", "o", "s", "t", " ", "o", "f", "f", "i", "c", "e", "s">>>>,
   <<85, <<"r", "e", "c", "y", "c", "l", "i", "n", "g">>>>,
   <<85, <<"r", "e", "c", "y", "c", "l", "i", "n", "g", " ", "c", "e", "n", "t", "e", "r">>>>,
   <<85, <<"r", "e", "c", "y", "c", "l", "i", "n", "g", " ", "c", "e", "n", "t", "r", "e">>>>,
   <<86, <<"o", "b", "s", "e", "r", "v", "a", "t", "o", "r", "i", "e", "s">>>>,
   <<86, <<"o", "b", "s", "e", "r", "v", "a", "t", "o", "r", "y">>>>,
   <<87, <<"c", "r", "a", "n", "e">>>>,
   <<88, <<"w", "i", "n", "d", "m", "i", "l", "l">>>>,
   <<89, <<"w", "a", "t", "e", "r", "m", "i", "l", "l">>>>,
   <<90, <<"g", "a", "s", "o", "m", "e", "t", "e", "r">>>>,
   <<91, <<"b", "u", "n", "k", "e", "r">>>>,
   <<92, <<"b", "a", "r", "r", "a", "c", "k", "s">>>>,
   <<93, <<"a", "i", "r", "f", "i", "e", "l", "d">>>>,
   <<94, <<"n", "a", "v", "a", "l", " ", "b", "a", "s", "e">>>>,
   <<95, <<"f", "i", "r", "i", "n", "g", " ", "r", "a", "n", "g", "e">>>>,
   <<95, <<"s", "h", "o", "o", "t", "i", "n", "g", " ", "r", "a", "n", "g", "e">>>>,
   <<96, <<"c", "h", "e", "c", "k", "p", "o", "i", "n", "t">>>>,
   <<97, <<"b", "o", "r", "d", "e", "r", " ", "c", "o", "n", "t", "r", "o", "l">>>>,
   <<97, <<"b", "o", "r", "d", "e", "r", " ", "c", "r", "o", "s", "s", "i", "n", "g">>>>,
   <<98, <<"a", "m", "b", "u", "l", "a", "n", "c", "e", " ", "b", "a", "s", "e">>>>,
   <<98, <<"a", "m", "b", "u", "l", "a", "n", "c", "e", " ", "d", "e", "p", "o", "t">>>>,
   <<98, <<"a", "m", "b", "u", "l", "a", "n", "c", "e", " ", "s", "t", "a", "t", "i", "o", "n">>>>,
   <<99, <<"r", "e", "s", "c", "u", "e", " ", "b", "a", "s", "e">>>>,
   <<99, <<"r", "e", "s", "c", "u", "e", " ", "s", "t", "a", "t", "i", "o", "n">>>>,
   <<99, <<"r", "e", "s", "c", "u", "e", " ", "t", "e", "a", "m">>>>,
   <<100, <<"l", "i", "f", "e", "g", "u", "a", "r", "d", " ", "p", "o", "s", "t">>>>,
   <<100, <<"l", "i", "f", "e", "g", "u", "a", "r", "d", " ", "s", "t", "a", "t", "i", "o", "n">>>>,
   <<100, <<"l", "i", "f", "e", "g", "u", "a", "r", "d", " ", "t", "o", "w", "e", "r">>>>,
   <<101, <<"f", "i", "r", "e", " ", "h", "y", "d", "r", "a", "n", "t">>>>,
   <<102, <<"e", "m", "e", "r", "g", "e", "n", "c", "y", " ", "c", "a", "l", "l", " ", "b", "o", "x">>>>,
   <<102, <<"e", "m", "e", "r", "g", "e", "n", "c", "y", " ", "p", "h", "o", "n", "e">>>>,
   <<102, <<"s", "o", "s", " ", "c", "a", "l", "l", " ", "b", "o", "x">>>>,
   <<102, <<"s", "o", "s", " ", "p", "h", "o", "n", "e">>>>,
   <<103, <<"c", "o", "a", "s", "t", " ", "g", "u", "a", "r", "d">>>>,
   <<103, <<"c", "o", "a", "s", "t", " ", "g", "u", "a", "r", "d", " ", "b", "a", "s", "e">>>>,
   <<103, <<"c", "o", "a", "s", "t", " ", "g", "u", "a", "r", "d", " ", "s", "t", "a", "t", "i", "o", "n">>>>,
   <<104, <<"t", "a", "x", "i", "w", "a", "y">>>>,
   <<105, <<"r", "u", "n", "w", "a", "y">>>>,
   <<106, <<"a", "i", "r", "l", "i", "n", "e", " ", "t", "e", "r", "m", "i", "n", "a", "l">>>>,
   <<106, <<"a", "i", "r", "p", "o", "r", "t", " ", "t", "e", "r", "m", "i", "n", "a", "l">>>>,
   <<106, <<"t", "e", "r", "m", "i", "n", "a", "l">>>>,
   <<107, <<"h", "a", "n", "g", "a", "r">>>>,
   <<108, <<"a", "i", "r", " ", "t", "r", "a", "f", "f", "i", "c", " ", "c", "o", "n", "t", "r", "o", "l">>>>,
   <<108, <<"a", "i", "r", " ", "t", "r", "a", "f", "f", "i", "c", " ", "c", "o", "n", "t", "r", "o", "l", " ", "t", "o", "w", "e", "r">>>>,
   <<108, <<"a", "t", "c">>>>,
   <<108, <<"a", "t", "c", " ", "t", "o", "w", "e", "r">>>>,
   <<109, <<"d", "o", "c", "k">>>>,
   <<110, <<"m", "a", "r", "i", "n", "a">>>>,
   <<111, <<"s", "h", "i", "p", "y", "a", "r", "d">>>>,
   <<112, <<"s", "e", "a", "p", "o", "r", "t">>>>,
   <<113, <<"t", "r", "a", "m", " ", "s", "t", "a", "t", "i", "o", "n">>>>,
   <<113, <<"t", "r", "a", "m", " ", "s", "t", "o", "p">>>>,
   <<114, <<"r", "a", "i", "l", "w", "a", "y", " ", "h", "a", "l", "t">>>>,
   <<114, <<"t", "r", "a", "i", "n", " ", "h", "a", "l", "t">>>>,
   <<115, <<"l", "e", "v", "e", "l", " ", "c", "r", "o", "s", "s", "i", "n", "g">>>>,
   <<116, <<"r", "a", "i", "l", "r", "o", "a", "d", " ", "c", "r", "o", "s", "s", "i", "n", "g">>>>,
   <<116, <<"r", "a", "i", "l", "w", "a", "y", " ", "c", "r", "o", "s", "s", "i", "n", "g">>>>,
   <<117, <<"t", "o", "l", "l", " ", "b", "o", "o", "t", "h">>>>,
   <<117, <<"t", "o", "l", "l", " ", "p", "l", "a", "z", "a">>>>,
   <<117, <<"t", "o", "l", "l", " ", "s", "t", "a", "t", "i", "o", "n">>>>,
   <<118, <<"w", "e", "i", "g", "h", " ", "b", "r", "i", "d", "g", "e">>>>,
   <<118, <<"w", "e", "i", "g", "h", " ", "s", "t", "a", "t", "i", "o", "n">>>>,
   <<119, <<"r", "e", "s", "t", " ", "a", "r", "e", "a">>>>,
   <<119, <<"r", "e", "s", "t", " ", "s", "t", "o", "p">>>>,
   <<120, <<"s", "e", "r", "v", "i", "c", "e", " ", "a", "r", "e", "a">>>>,
   <<120, <<"s", "e", "r", "v", "i", "c", "e", " ", "p", "l", "a", "z", "a">>>>,
   <<120, <<"s", "e", "r", "v", "i", "c", "e", " ", "s", "t", "a", "t", "i", "o", "n">>>>}

TypePhraseInputs ==
  {[mode |-> "natural", digits |-> <<>>, rule |-> ph[1], text |-> ph[2]] : ph \in TypePhrases}

\* Natural texts that name no operator, one, or several
OperatorTexts ==
  {<<"v", "o", "d", "a", "f", "o", "n", "e", " ", "a", "n", "d", " ", "a", "i", "r", "t", "e", "l", " ", "t", "o", "w", "e", "r", "s", " ", "i", "n", " ", "g", "o", "a">>,
   <<"r", "e", "l", "i", "a", "n", "c", "e", " ", "j", "i", "o", " ", "t", "o", "w", "e", "r", "s", " ", "i", "n", " ", "g", "o", "a">>,
   <<"A", "W", "S", " ", "d", "a", "t", "a", " ", "c", "e", "n", "t", "e", "r", "s", " ", "i", "n", " ", "i", "n", "d", "i", "a">>,
   <<"f", "a", "c", "e", "b", "o", "o", "k", " ", "d", "a", "t", "a", " ", "c", "e", "n", "t", "e", "r", "s", " ", "n", "e", "a", "r", " ", "l", "u", "l", "e", "a">>,
   <<"t", "a", "t", "a", " ", "p", "o", "w", "e", "r", " ", "p", "l", "a", "n", "t", "s", " ", "i", "n", " ", "i", "n", "d", "i", "a">>,
   <<"s", "u", "b", "s", "t", "a", "t", "i", "o", "n", "s", " ", "i", "n", " ", "g", "u", "j", "a", "r", "a", "t">>,
   <<"M", "i", "c", "r", "o", "s", "o", "f", "t", " ", "A", "z", "u", "r", "e", " ", "G", "o", "o", "g", "l", "e", " ", "d", "a", "t", "a", " ", "c", "e", "n", "t", "r", "e", "s", " ", "i", "n", " ", "o", "h", "i", "o">>,
   <<"g", "r", "i", "l", "l", "s", " ", "a", "n", "d", " ", "t", "o", "w", "e", "r", "s", " ", "i", "n", " ", "g", "o", "a">>}

\* Structured texts built from key:value tokens: at most MaxTokens tokens of
\* distinct keys, in every order, joined by single blanks
MaxTokens == 3

FieldTokens ==
  {[key |-> <<"t", "y", "p", "e">>, value |-> <<"d", "a", "t", "a", "_", "c", "e", "n", "t", "e", "r">>],
   [key |-> <<"t", "y", "p", "e">>, value |-> <<"c", "o", "n", "s", "t", "r", "u", "c", "t", "o", "r">>],
   [key |-> <<"t", "y", "p", "e">>, value |-> <<"n", "o", "s", "u", "c", "h">>],
   [key |-> <<"o", "p", "e", "r", "a", "t", "o", "r">>, value |-> <<"g", "o", "o", "g", "l", "e">>],
   [key |-> <<"o", "p", "e", "r", "a", "t", "o", "r">>, value |-> <<"T", "a", "t", "a", "_", "P", "o", "w", "e", "r">>],
   [key |-> <<"r", "e", "g", "i", "o", "n">>, value |-> <<"c", "a", "l", "i", "f", "o", "r", "n", "i", "a">>],
   [key |-> <<"r", "e", "g", "i", "o", "n">>, value |-> <<"n", "e", "w", "_", "d", "e", "l", "h", "i">>],
   [key |-> <<"c", "o", "u", "n", "t", "r", "y">>, value |-> <<"i", "n", "d", "i", "a">>],
   [key |-> <<"n", "e", "a", "r">>, value |-> <<"s", "a", "n", "_", "j", "o", "s", "e">>]}

TokenLists ==
  UNION {{ts \in [1..n -> FieldTokens] : \A i, j \in 1..n : i # j => ts[i].key # ts[j].key}
           : n \in 1..MaxTokens}

RECURSIVE JoinTokens(_)
JoinTokens(ts) ==
  IF Len(ts) = 0 THEN <<>>
  ELSE LET token == ts[Len(ts)].key \o <<":">> \o ts[Len(ts)].value
       IN  IF Len(ts) = 1 THEN token
           ELSE JoinTokens(SubSeq(ts, 1, Len(ts) - 1)) \o <<" ">> \o token

TokenInputs ==
  {[mode |-> "structured", digits |-> <<>>, tokens |-> ts, text |-> JoinTokens(ts)] :
     ts \in TokenLists}

ParseInputs ==
  LET numbers == DigitStrings(MaxDigits) \ {<<>>}
  IN  (UNION {{[mode |-> "structured", digits |-> n, text |-> t] : t \in StructuredForms(n)} :
                n \in numbers})
      \cup (UNION {{[mode |-> "natural", digits |-> n, text |-> t] : t \in NaturalForms(n)} :
                n \in numbers})
      \cup {[mode |-> "structured", digits |-> <<>>, text |-> t] : t \in StructuredNoRadius}
      \cup {[mode |-> "natural", digits |-> <<>>, text |-> t] : t \in NaturalNoRadius}
      \cup {[mode |-> "structured", digits |-> <<>>, text |-> t] : t \in PrefixedTexts}
      \cup {[mode |-> "natural", digits |-> <<>>, text |-> t] : t \in UnprefixedTexts}
      \cup LocationInputs
      \cup TypePhraseInputs
      \cup TokenInputs
      \cup {[mode |-> "natural", digits |-> <<>>, text |-> t] : t \in OperatorTexts}

Parse ==
  /\ parseOutput = <<>>
  /\ parseOutput' = <<parseQuery(parseInput.text)>>
  /\ UNCHANGED parseInput
  /\ UNCHANGED searchVars
  /\ UNCHANGED rateVars
  /\ UNCHANGED execVars
  /\ UNCHANGED fnVars

(***************************************************************************)
(* Specifications                                                          *)
(***************************************************************************)
InitSearch ==
  /\ req = [id \in Requests |-> IdleRequest]
  /\ searchCache = EmptyCache
  /\ geoCache = EmptyCache
  /\ okLog = <<>>

InitRateIdle ==
  /\ now = StartTime
  /\ lastNominatimRequest = 0
  /\ call = [c \in Calls |-> IdleCall]

InitParseIdle ==
  /\ parseInput = [mode |-> "structured", digits |-> <<>>, text |-> W_StructuredHead]
  /\ parseOutput = <<>>

InitExecIdle == exec = IdleExec

InitFnIdle == arg = <<>> /\ out = <<>>

\* The search handler
Init == InitSearch /\ InitRateIdle /\ InitParseIdle /\ InitExecIdle /\ InitFnIdle

Next ==
  \/ \E id \in Requests, body \in Bodies : Receive(id, body)
  \/ \E id \in Requests, answer \in GeocoderAnswers : GeocoderReturns(id, answer)
  \/ \E id \in Requests, resp \in EndpointAnswers : EndpointReturns(id, resp)

Spec == Init /\ [][Next]_vars

\* The rate limiter of the geocoding client
NextRate ==
  \/ \E c \in Calls : EnterRateLimit(c)
  \/ \E c \in Calls : TimerFires(c)
  \/ Tick

SpecRate == Init /\ [][NextRate]_vars

\* The rate limiter under calls that do not overlap.  Time passes, and the
\* event loop runs the callback of a timer that is due.
NextSerial ==
  \/ \E c \in Calls : EnterRateLimitAlone(c)
  \/ \E c \in Calls : TimerFires(c)
  \/ Tick

SpecSerial ==
  /\ Init
  /\ [][NextSerial]_vars
  /\ WF_vars(Tick)
  /\ \A c \in Calls : WF_vars(TimerFires(c))

\* The parser
InitParse ==
  /\ InitSearch
  /\ InitRateIdle
  /\ InitExecIdle
  /\ InitFnIdle
  /\ parseInput \in ParseInputs
  /\ parseOutput = <<>>

NextParse == Parse

SpecParse == InitParse /\ [][NextParse]_vars

\* executeQuery
NextExecute ==
  \/ CallExecuteQuery
  \/ \E resp \in EndpointAnswers : ExecuteQueryStep(resp)

SpecExecute == Init /\ [][NextExecute]_vars

(***************************************************************************)
(* The pure functions, each called once on an argument of a bounded set    *)
(***************************************************************************)
\* What a call leaves as it is
callFrame == <<arg, req, searchCache, geoCache, okLog, now, lastNominatimRequest, call,
               parseInput, parseOutput, exec>>

\* validateQuery on the ParsedQuery values whose text fields are null, ''
\* or a text
NullableTexts == {Null, <<>>, <<"x">>}

ParsedQueries ==
  {[type |-> t, operator |-> o, region |-> r, country |-> c, near |-> n,
    radius |-> DEFAULT_RADIUS, raw |-> <<>>] :
     t \in NullableTexts, o \in NullableTexts, r \in NullableTexts,
     c \in NullableTexts, n \in NullableTexts}

CallValidateQuery ==
  /\ arg.fn = "validateQuery"
  /\ out = <<>>
  /\ out' = <<validateQuery(arg.parsed)>>
  /\ UNCHANGED callFrame

\* Candidates of the geocoder: a place type inside or outside adminTypes,
\* an importance below, at and above 0.5; osmId tells the candidates apart
MaxCandidates == 3

Candidate(t, imp, k) ==
  [G_Node EXCEPT !.type = t, !.importance = imp, !.osmId = Big(0, k)]

CandidateKinds == {"city", "district", "peak"} \X {300, 500, 700}

CandidateLists ==
  UNION {{[i \in 1..n |-> Candidate(ks[i][1], ks[i][2], i)] : ks \in [1..n -> CandidateKinds]}
           : n \in 0..MaxCandidates}

CallResolveLocation ==
  /\ arg.fn = "resolveLocation"
  /\ out = <<>>
  /\ out' = <<resolveLocation(arg.results)>>
  /\ UNCHANGED callFrame

\* Element kinds and ids: small ids, the ids whose sums reach 2^32, ids
\* beyond 2^32 and of the size of today's node ids
OsmKinds == {"relation", "way", "node", "area", ""}

OsmIds ==
  {Big(0, 0), Big(0, 1), Big(0, 123), Big(0, 999999),
   Big(694, 967295), Big(694, 967296), Big(1894, 967296),
   Big(4294, 967295), Big(4294, 967296), Big(12345, 678901)}

CallOsmIdToAreaId ==
  /\ arg.fn = "osmIdToAreaId"
  /\ out = <<>>
  /\ out' = <<osmIdToAreaId(arg.osmType, arg.osmId)>>
  /\ UNCHANGED callFrame

\* Lists of assets, of which calculateStats reads the operator and the type
MaxAssets == 3

AssetSamples ==
  {[operator |-> o, type |-> t] :
     o \in {"google", "jio", JsNull, "constructor"}, t \in {<<"data_center">>, <<"tower">>}}

AssetLists == UNION {[1..n -> AssetSamples] : n \in 0..MaxAssets}

CallCalculateStats ==
  /\ arg.fn = "calculateStats"
  /\ out = <<>>
  /\ out' = <<calculateStats(arg.assets)>>
  /\ UNCHANGED callFrame

\* Elements of an endpoint's answer: coordinates of their own (0 included),
\* a centroid, neither, or a latitude alone; tags that carry each of the
\* five name tags first, empty ones before it, or none; tags of several
\* inference rules and of none
MaxElements == 2

ElementSamples ==
  {E_Node, E_Way, E_NoCoordinates, E_NoTags,
   [type |-> "node", id |-> 1, lat |-> 0, lon |-> 0,
    tags |-> ("name:en" :> "Tower") @@ [name |-> "", man_made |-> "tower"]],
   [type |-> "way", id |-> 2, center |-> [lat |-> 7, lon |-> 9],
    tags |-> [ref |-> "R1", power |-> "generator"]],
   [type |-> "relation", id |-> 3, center |-> [lat |-> 7, lon |-> 9],
    tags |-> ("generator:source" :> "solar") @@ [description |-> "d", power |-> "generator"]],
   [type |-> "node", id |-> 4, lat |-> -3, lon |-> 12,
    tags |-> [operator |-> "Jio", highway |-> "service"]],
   [type |-> "node", id |-> 5, lat |-> 3, lon |-> 12,
    tags |-> ("tower:type" :> "communication") @@ [man_made |-> "tower", operator |-> ""]],
   [type |-> "way", id |-> 6, center |-> [lat |-> 1, lon |-> 2]],
   [type |-> "node", id |-> 7, lat |-> 3, tags |-> [name |-> "Half"]]}

ElementSeqs == UNION {[1..n -> ElementSamples] : n \in 0..MaxElements}

\* Lines 170-190 of executeQuery on the elements of a parsed answer
CallNormalizeElements ==
  /\ arg.fn = "NormalizeElements"
  /\ out = <<>>
  /\ out' = <<NormalizeElements(arg.elements)>>
  /\ UNCHANGED callFrame

\* Parsed queries the builder accepts: the type is absent or a key of the
\* taxonomy, with the default radius or a radius of its own
BuiltQueries ==
  {[type |-> t, operator |-> o, region |-> r, country |-> c, near |-> n,
    radius |-> km, raw |-> <<>>] :
     t \in {Null, <<>>, <<"t", "o", "w", "e", "r">>}, o \in NullableTexts,
     r \in NullableTexts, c \in NullableTexts, n \in NullableTexts,
     km \in {DEFAULT_RADIUS, 70}}

\* Places the geocoder resolves a location to: a relation, a node, a way, and
\* places whose osm_id is 0 or whose osm_type is empty
ResolvedPlaces ==
  {G_Relation, G_Node, G_Way,
   [G_Way EXCEPT !.osmId = Big(0, 0)], [G_Relation EXCEPT !.osmType = ""]}

\* Lines 31-104 of POST for a parsed query, with an empty search cache and a
\* geo cache that holds the resolved place of the location string
CallValidated ==
  /\ arg.fn = "Validated"
  /\ out = <<>>
  /\ out' = <<Validated([IdleRequest EXCEPT !.parsed = arg.parsed], EmptyCache,
                         [k \in {LocationQueryOf(arg.parsed)} |-> arg.place])>>
  /\ UNCHANGED callFrame

PureCalls ==
  {[fn |-> "validateQuery", parsed |-> parsed] : parsed \in ParsedQueries}
    \cup {[fn |-> "resolveLocation", results |-> results] : results \in CandidateLists}
    \cup {[fn |-> "osmIdToAreaId", osmType |-> k, osmId |-> id] : k \in OsmKinds, id \in OsmIds}
    \cup {[fn |-> "calculateStats", assets |-> assets] : assets \in AssetLists}
    \cup {[fn |-> "NormalizeElements", elements |-> elements] : elements \in ElementSeqs}
    \cup {[fn |-> "Validated", parsed |-> parsed, place |-> G_Relation] :
              parsed \in ParsedQueries}
    \cup {[fn |-> "Validated", parsed |-> parsed, place |-> place] :
              parsed \in BuiltQueries, place \in ResolvedPlaces}

InitPure ==
  /\ InitSearch
  /\ InitRateIdle
  /\ InitParseIdle
  /\ InitExecIdle
  /\ arg \in PureCalls
  /\ out = <<>>

NextPure ==
  \/ CallValidateQuery
  \/ CallResolveLocation
  \/ CallOsmIdToAreaId
  \/ CallCalculateStats
  \/ CallValidated
  \/ CallNormalizeElements

SpecPure == InitPure /\ [][NextPure]_vars

(***************************************************************************)
(* Properties                                                              *)
(***************************************************************************)
Abs(x) == IF x < 0 THEN -x ELSE x

Clamp(n, lo, hi) == IF n < lo THEN lo ELSE IF n > hi THEN hi ELSE n

\* <<1, ..., n>>
UpTo(n) == [j \in 1..n |-> j]

AllFailed(outcomes) == \A j \in 1..Len(outcomes) : outcomes[j].k # "ok"

\* The responses given before request r arrived for the six fields of r
SameEntry(r) == {j \in 1..r.logAt : okLog[j].fields = SixFields(r.parsed)}

Latest(S) == CHOOSE j \in S : \A k \in S : k <= j

\* The SearchResult of lines 109-114 for request r
CompleteResult(r, result) ==
  /\ DOMAIN result = {"results", "stats", "bounds", "query"}
  /\ result.results = NormalizeElements(r.lastAnswer.elements)
  /\ result.stats = calculateStats(result.results)
  /\ result.bounds = r.bbox
  /\ result.query = r.parsed

\* C1: any two requests to the geocoding service, also of calls that entered
\* waitForRateLimit while another call was waiting, are sent at least
\* 1000 ms apart.
C1_SentOneSecondApart ==
  \A c, d \in Calls :
    (c # d /\ call[c].pc = "sent" /\ call[d].pc = "sent")
      => Abs(call[c].sentAt - call[d].sentAt) >= 1000

\* C2: while every endpoint asked so far has failed and endpoints remain, the
\* next endpoint is asked; when endpoint k answers successfully after the
\* failures of endpoints 1..k-1, executeQuery returns the normalized elements
\* of that response and exactly the endpoints 1..k have been asked.
C2_FailoverReturnsFirstSuccess ==
  LET n == Len(exec.outcomes)
  IN  /\ (n >= 1 /\ n < Len(OVERPASS_APIS) /\ AllFailed(exec.outcomes))
           => (exec.pc = "fetching" /\ exec.contacted = UpTo(n + 1))
      /\ (n >= 1 /\ exec.outcomes[n].k = "ok")
           => /\ AllFailed(SubSeq(exec.outcomes, 1, n - 1))
              /\ exec.pc = "returned"
              /\ exec.assets = NormalizeElements(exec.outcomes[n].elements)
              /\ exec.contacted = UpTo(n)
      /\ exec.pc = "returned" => (n >= 1 /\ exec.outcomes[n].k = "ok")

\* Endpoint 1 answered 429, endpoint 2 succeeded: two requests, two assets
C2_Witness ==
  /\ exec.pc = "returned"
  /\ Len(exec.outcomes) = 2
  /\ exec.outcomes[1].status = 429
  /\ exec.outcomes[2].k = "ok"
  /\ exec.contacted = <<1, 2>>
  /\ Len(exec.assets) = 2

\* C3: executeQuery throws only when the last endpoint has failed, and what
\* it throws is the failure of the last endpoint: after a rate limit at
\* endpoint 1 and status 500 at the last endpoint, the status-500 failure.
C3_LastFailureIsRaised ==
  LET n == Len(exec.outcomes)
      all == Len(OVERPASS_APIS)
  IN  /\ exec.pc = "thrown"
           => /\ n = all
              /\ AllFailed(exec.outcomes)
              /\ exec.lastError = FailureOf(exec.outcomes[n], OVERPASS_APIS[n])
              /\ (exec.outcomes[n].k = "status" /\ exec.outcomes[n].status = 500)
                   => exec.lastError.message
                        = <<"API", "request", "failed", "with", "status", "500">>
      /\ (n = all /\ AllFailed(exec.outcomes)) => exec.pc = "thrown"
      /\ (n >= 1 /\ n < all /\ AllFailed(exec.outcomes)) => exec.pc = "fetching"

\* A rate limit at endpoint 1, status 500 at endpoint 3, and the error thrown
C3_Witness ==
  /\ exec.pc = "thrown"
  /\ exec.outcomes[1].status = 429
  /\ exec.outcomes[3].status = 500
  /\ exec.lastError.message = <<"API", "request", "failed", "with", "status", "500">>

\* C4: the endpoints asked are 1, 2, ... in list order, each once; at most
\* one request is in flight; endpoint i+1 is asked only when endpoint i has
\* answered with a failure.
C4_SequentialEachOnce ==
  LET n == Len(exec.contacted)
  IN  /\ n <= Len(OVERPASS_APIS)
      /\ exec.contacted = UpTo(n)
      /\ Cardinality(exec.inFlight) <= 1
      /\ exec.pc = "fetching" => (exec.inFlight = {n} /\ Len(exec.outcomes) = n - 1)
      /\ exec.pc # "fetching" => (exec.inFlight = {} /\ Len(exec.outcomes) = n)
      /\ \A j \in 1..(n - 1) : exec.outcomes[j].k # "ok"

\* All three endpoints have been asked, the third is in flight
C4_Witness ==
  /\ exec.pc = "fetching"
  /\ exec.contacted = <<1, 2, 3>>
  /\ exec.inFlight = {3}
  /\ Len(exec.outcomes) = 2

\* C5: a step changes the search cache only when it ends a request with the
\* 200 response after the location was resolved and an endpoint answered, and
\* then it stores the complete SearchResult of the response under the key of
\* the request and nothing else; a step that ends a request with an error
\* response leaves the search cache as it was.
C5_CacheWrittenOnlyOnSuccess ==
  [][/\ searchCache' # searchCache
          => \E id \in Requests :
               LET r == req'[id]
               IN  /\ req[id].pc = "fetching"
                   /\ r.pc = "done"
                   /\ r.response.status = 200
                   /\ r.geoResult.found
                   /\ r.lastAnswer.k = "ok"
                   /\ CompleteResult(r, r.response.result[1])
                   /\ DOMAIN searchCache' = DOMAIN searchCache \cup {r.cacheKey}
                   /\ searchCache'[r.cacheKey] = r.response.result[1]
                   /\ \A k \in DOMAIN searchCache \ {r.cacheKey} :
                        searchCache'[k] = searchCache[k]
     /\ \A id \in Requests :
          (req[id].pc # "done" /\ req'[id].pc = "done" /\ req'[id].response.status # 200)
            => searchCache' = searchCache]_vars

\* One request has stored its result, another has ended with an upstream error
C5_Witness ==
  \E id, other \in Requests :
    /\ req[id].cause = "success"
    /\ req[id].searchWrites = 1
    /\ DOMAIN searchCache = {req[id].cacheKey}
    /\ searchCache[req[id].cacheKey] = req[id].response.result[1]
    /\ req[other].cause = "exhausted"
    /\ req[other].searchWrites = 0

\* C6: a request whose text was answered with a result before it arrived is
\* answered at once from the search cache, without a geocoder call and without
\* a request to an endpoint, with the result last given for its cache entry.
C6_SecondIdenticalRequestHits ==
  \A id \in Requests :
    LET r == req[id]
        earlier == {j \in 1..r.logAt : okLog[j].text = r.body.query}
    IN  (r.pc # "idle" /\ r.body.t = "string" /\ earlier # {})
          => /\ r.pc = "done"
             /\ r.cause = "hit"
             /\ r.response.status = 200
             /\ r.response.result[1] = okLog[Latest(SameEntry(r))].result
             /\ r.steps = 1
             /\ r.geocoderCalls = 0
             /\ r.geoReads = 0
             /\ r.contacted = <<>>

\* The second request with the text of the first, answered with its result
C6_Witness ==
  \E id \in Requests :
    /\ req[id].cause = "hit"
    /\ req[id].logAt = 1
    /\ okLog[1].text = req[id].body.query
    /\ okLog[1].cause = "success"
    /\ req[id].response.result[1] = okLog[1].result
    /\ req[id].geocoderCalls = 0
    /\ req[id].contacted = <<>>

\* C7: the key of the search cache is the record of the six parsed fields; a
\* request whose six fields were answered with a result before, under any
\* text, is a hit with the result last given for them, and a hit is only ever
\* given for a result stored for the same six fields.
C7_KeyIsTheSixFields ==
  \A id \in Requests :
    LET r == req[id]
        same == SameEntry(r)
    IN  /\ r.cacheKey # NoKey
             => /\ DOMAIN r.cacheKey
                     = {"type", "operator", "region", "country", "near", "radius"}
                /\ SixFields(r.cacheKey) = SixFields(r.parsed)
        /\ (r.pc # "idle" /\ same # {})
             => /\ r.cause = "hit"
                /\ r.response.result[1] = okLog[Latest(same)].result
        /\ r.cause = "hit"
             => /\ same # {}
                /\ SixFields(r.response.result[1].query) = SixFields(r.parsed)

\* A hit on an entry that a request with another text stored
C7_Witness ==
  \E id \in Requests :
    /\ req[id].cause = "hit"
    /\ req[id].logAt = 1
    /\ okLog[1].fields = SixFields(req[id].parsed)
    /\ okLog[1].text # req[id].body.query
    /\ req[id].response.result[1].query.raw # req[id].body.query

\* C8: a body without a query text is answered MISSING_QUERY, a text of
\* more than 500 characters QUERY_TOO_LONG, a text the validator rejects
\* INVALID_QUERY; each of these responses is given in the step in which the
\* request arrived, with status 400, before any geocoder call or request to
\* an endpoint and before any read or write of either cache.
C8_ValidationAnswersAtOnce ==
  \A id \in Requests :
    LET r == req[id]
        q == r.body.query
    IN  /\ (r.pc # "idle" /\ (r.body.t \in {"undefined", "number"}
                              \/ (r.body.t = "string" /\ Len(q) = 0)))
             => r.response.code = "MISSING_QUERY"
        /\ (r.pc # "idle" /\ r.body.t = "string" /\ Len(q) > 500)
             => r.response.code = "QUERY_TOO_LONG"
        /\ (r.pc # "idle" /\ r.body.t = "string" /\ Len(q) > 0 /\ Len(q) <= 500
            /\ ~validateQuery(Parsed[q]).valid)
             => r.response.code = "INVALID_QUERY"
        /\ r.response.code \in {"MISSING_QUERY", "QUERY_TOO_LONG", "INVALID_QUERY"}
             => /\ r.pc = "done"
                /\ r.response.status = 400
                /\ r.steps = 1
                /\ r.geocoderCalls = 0
                /\ r.contacted = <<>>
                /\ r.lastAnswer = NoAnswer
                /\ r.searchReads = 0
                /\ r.searchWrites = 0
                /\ r.geoReads = 0
                /\ r.geoWrites = 0

\* A text the validator rejects, answered while the search cache holds an entry
C8_Witness ==
  \E id \in Requests :
    /\ req[id].response.code = "INVALID_QUERY"
    /\ req[id].body.query \in {Q_NoScope, Q_NoFilter}
    /\ req[id].steps = 1
    /\ req[id].searchReads = 0
    /\ searchCache # EmptyCache

\* The last answer of the endpoints to request r
LastOutcome(r) == r.lastAnswer

\* C9 as the spec states it: a validation failure gives a 4xx response; the
\* endpoints exhausted with a rate limit last give 429 RATE_LIMITED; the
\* endpoints exhausted with another non-success status or a timeout last give
\* 504; the 500 response is never given for a failure of the endpoints.
C9_ErrorClassAsStated ==
  \A id \in Requests :
    LET r == req[id]
    IN  /\ r.cause = "validation" => r.response.status \in 400..499
        /\ (r.cause = "exhausted" /\ LastOutcome(r).k = "status" /\ LastOutcome(r).status = 429)
             => (r.response.status = 429 /\ r.response.code = "RATE_LIMITED")
        /\ (r.cause = "exhausted"
            /\ \/ LastOutcome(r).k = "status" /\ LastOutcome(r).status # 429
               \/ LastOutcome(r).k = "abort")
             => r.response.status = 504
        /\ r.response.status = 500 => r.cause # "exhausted"

\* C9, amended: a validation failure gives a 400 response; the endpoints
\* exhausted with a rate limit last give 429 RATE_LIMITED; exhausted with an
\* aborted (timed out) request last, 504 TIMEOUT; exhausted with any other
\* failure last (a non-success status other than 429, a network error, an
\* unreadable body), 500 INTERNAL_ERROR, the response that unexpected
\* exceptions and failures of the geocoder that are not timeouts get as well.
C9_ErrorClassFollowsMessage ==
  \A id \in Requests :
    LET r == req[id]
    IN  /\ r.cause \in {"validation", "notfound"} => r.response.status = 400
        /\ r.cause = "exhausted"
             => LET last == LastOutcome(r)
                IN  /\ (last.k = "status" /\ last.status = 429)
                         => (r.response.status = 429 /\ r.response.code = "RATE_LIMITED")
                    /\ last.k = "abort"
                         => (r.response.status = 504 /\ r.response.code = "TIMEOUT")
                    /\ ((last.k = "status" /\ last.status # 429)
                        \/ last.k \in {"network", "badbody"})
                         => (r.response.status = 500 /\ r.response.code = "INTERNAL_ERROR")
        /\ r.response.status = 429
             => (r.cause = "exhausted" /\ LastOutcome(r).status = 429)
        /\ r.response.status = 500
             => /\ r.response.code = "INTERNAL_ERROR"
                /\ r.cause \in {"exception", "geocoder", "exhausted"}
                /\ r.cause = "exhausted" => ~includes(r.lastError.message, <<"aborted">>)

\* The endpoints exhausted three ways: 429 last, an abort last, status 500 last
C9_Witness ==
  \E id, other \in Requests :
    /\ req[id].cause = "exhausted"
    /\ LastOutcome(req[id]).status = 500
    /\ req[id].response.code = "INTERNAL_ERROR"
    /\ req[other].cause = "exhausted"
    /\ LastOutcome(req[other]).status = 429
    /\ req[other].response.code = "RATE_LIMITED"

\* C10: the parsed radius is clamp(n, 1, 500) for a text that states the
\* radius n, in structured and in natural mode, and 50 for a text that
\* states none or one that is not a number.
C10_RadiusClamped ==
  parseOutput # <<>>
    => parseOutput[1].radius
         = IF parseInput.digits = <<>> THEN 50
           ELSE Clamp(parseInt(parseInput.digits), 1, 500)

\* C11: validateQuery answers every ParsedQuery: invalid with the "asset
\* type or operator" message when type and operator are both unset (null or
\* ''), whatever the geographic fields are; invalid with the "geographic
\* scope" message when one of them is set and region, near and country are
\* all unset; valid, without an error, in every other case.
C11_ValidateQueryCases ==
  (arg.fn = "validateQuery" /\ out # <<>>)
    => LET unset(f) == f = Null \/ f = <<>>
           noFilter == unset(arg.parsed.type) /\ unset(arg.parsed.operator)
           noScope == unset(arg.parsed.region) /\ unset(arg.parsed.near) /\ unset(arg.parsed.country)
       IN  /\ noFilter
                => out[1] = [valid |-> FALSE,
                             error |-> "Query must specify an asset type or operator"]
           /\ (~noFilter /\ noScope)
                => out[1] = [valid |-> FALSE,
                             error |-> "Query must specify a geographic scope"]
           /\ (~noFilter /\ ~noScope) => out[1] = [valid |-> TRUE, error |-> "none"]

\* validate({type: null, operator: null, region: 'x'}) has answered
C11_Witness ==
  /\ arg.fn = "validateQuery"
  /\ out # <<>>
  /\ arg.parsed.type = Null /\ arg.parsed.operator = Null /\ arg.parsed.region = <<"x">>
  /\ ~out[1].valid
  /\ out[1].error = "Query must specify an asset type or operator"


\* C12: resolveLocation answers null exactly on an empty candidate list;
\* otherwise it answers the first candidate, in the order of the list, whose
\* place type is administrative, state, city, town, village, county or
\* district or whose importance is above 0.5, and when there is none, a
\* candidate of the greatest importance of the list.
C12_ResolveLocationPolicy ==
  (arg.fn = "resolveLocation" /\ out # <<>>) =>
    LET results == arg.results
        n == Len(results)
        preferred(g) ==
          \/ g.type \in {"administrative", "state", "city", "town", "village", "county",
                          "district"}
          \/ g.importance > 500
        firstPreferred(i) == preferred(results[i]) /\ \A j \in 1..(i - 1) : ~preferred(results[j])
    IN /\ (out[1] = NotFound) <=> (n = 0)
       /\ \A i \in 1..n : firstPreferred(i) => out[1] = results[i]
       /\ (n > 0 /\ \A i \in 1..n : ~preferred(results[i])) =>
            /\ \E i \in 1..n : out[1] = results[i]
            /\ \A i \in 1..n : results[i].importance <= out[1].importance

\* a city of low importance listed before a more important peak is chosen
C12_Witness ==
  /\ arg.fn = "resolveLocation"
  /\ out # <<>>
  /\ Len(arg.results) = 3
  /\ arg.results[1].type = "peak" /\ arg.results[1].importance = 500
  /\ arg.results[2].type = "city" /\ arg.results[2].importance = 300
  /\ arg.results[3].importance = 700
  /\ out[1] = arg.results[2]

\* C13: parseQuery parses a non-empty text in structured mode exactly when
\* the trimmed text begins, in either case, with type:, operator:, region:,
\* country:, near: or radius:, and in natural mode otherwise, also when
\* key:value tokens follow a leading word.
C13_ModeFollowsPrefix ==
  parseOutput # <<>> =>
    LET trimmed == trim(parseInput.text)
        prefixes == {<<"t", "y", "p", "e", ":">>,
                     <<"o", "p", "e", "r", "a", "t", "o", "r", ":">>,
                     <<"r", "e", "g", "i", "o", "n", ":">>,
                     <<"c", "o", "u", "n", "t", "r", "y", ":">>,
                     <<"n", "e", "a", "r", ":">>,
                     <<"r", "a", "d", "i", "u", "s", ":">>}
        begins(prefix) ==
          /\ Len(trimmed) >= Len(prefix)
          /\ toLowerCase(SubSeq(trimmed, 1, Len(prefix))) = prefix
    IN  Len(trimmed) > 0 =>
          IF \E prefix \in prefixes : begins(prefix)
            THEN parseOutput[1] = parseStructured(trimmed)
            ELSE parseOutput[1] = parseNatural(trimmed)

\* `towers type:airport region:goa` was parsed in natural mode: the type is
\* the one of `towers`, and no structured field was read
C13_Witness ==
  /\ parseOutput # <<>>
  /\ parseInput.text = <<"t", "o", "w", "e", "r", "s", " ", "t", "y", "p", "e", ":", "a", "i", "r", "p",
      "o", "r", "t", " ", "r", "e", "g", "i", "o", "n", ":", "g", "o", "a">>
  /\ parseOutput[1].type = <<"t", "e", "l", "e", "c", "o", "m">>
  /\ parseOutput[1].region # <<"g", "o", "a">>
  /\ parseOutput[1] # parseStructured(parseInput.text)

\* C14: in natural mode the location is the place as the text writes it:
\* for `... near X`, near = X and region = null; for `... in X` without a
\* `near`, region = X and near = null; region and near are never both set.
C14_LocationAsWritten ==
  (parseOutput # <<>> /\ parseInput \in LocationInputs) =>
    /\ parseInput.word = <<"n", "e", "a", "r">> =>
         (parseOutput[1].near = parseInput.place /\ parseOutput[1].region = Null)
    /\ parseInput.word = <<"i", "n">> =>
         (parseOutput[1].region = parseInput.place /\ parseOutput[1].near = Null)
    /\ ~(parseOutput[1].region # Null /\ parseOutput[1].near # Null)

\* C15: the rule list puts every specific phrasing before the generic rules
\* that match it too: for a phrase accepted by rule A, every rule B of
\* another type that matches the phrase comes after A, so the phrase is
\* parsed to the type of A.
C15_SpecificBeforeGeneric ==
  (parseOutput # <<>> /\ parseInput \in TypePhraseInputs) =>
    LET A == parseInput.rule
        phrase == parseInput.text
    IN  test(TYPE_PATTERNS[A].pattern, phrase) =>
          /\ \A B \in 1..Len(TYPE_PATTERNS) :
                (test(TYPE_PATTERNS[B].pattern, phrase)
                   /\ TYPE_PATTERNS[B].type # TYPE_PATTERNS[A].type) => A < B
          /\ parseOutput[1].type = TYPE_PATTERNS[A].type

\* C16: in natural mode the operator is the canonical name of the first
\* entry of the alias table, in the table's order, whose canonical name or
\* one of whose aliases occurs in the lower-cased text as a substring; it is
\* null exactly when no name of the table occurs.
C16_FirstOperatorInTableOrder ==
  (parseOutput # <<>> /\ parseInput.mode = "natural") =>
    LET text == toLowerCase(trim(parseInput.text))
        occurs(name) ==
          \E at \in 1..Len(text) :
            /\ at + Len(name) - 1 <= Len(text)
            /\ \A k \in 1..Len(name) : text[at + k - 1] = name[k]
        mentions(i) ==
          \/ occurs(OPERATOR_ALIASES[i].canonical)
          \/ \E j \in 1..Len(OPERATOR_ALIASES[i].aliases) : occurs(OPERATOR_ALIASES[i].aliases[j])
        entries == 1..Len(OPERATOR_ALIASES)
    IN  /\ \A i \in entries :
             (mentions(i) /\ \A j \in 1..(i - 1) : ~mentions(j))
               => parseOutput[1].operator = OPERATOR_ALIASES[i].canonical
        /\ (parseOutput[1].operator = Null) <=> (\A i \in entries : ~mentions(i))

\* `vodafone and airtel towers in goa`: airtel, the earlier entry of the
\* table, although vodafone comes first in the text
C16_Witness ==
  /\ parseOutput # <<>>
  /\ parseInput.text = <<"v", "o", "d", "a", "f", "o", "n", "e", " ", "a", "n", "d", " ", "a", "i", "r",
      "t", "e", "l", " ", "t", "o", "w", "e", "r", "s", " ", "i", "n", " ", "g", "o", "a">>
  /\ parseOutput[1].operator = <<"a", "i", "r", "t", "e", "l">>

\* C17: in structured mode every field comes from its own key:value token,
\* in whatever order the tokens stand: type is the token's value when that
\* is a key of the taxonomy and null otherwise; operator, region, country
\* and near are the token's value with each underscore replaced by a blank;
\* a field without a token is null (radius: 50).
C17_FieldsFromTheirTokens ==
  (parseOutput # <<>> /\ parseInput \in TokenInputs) =>
    LET tokens == parseInput.tokens
        has(key) == \E i \in 1..Len(tokens) : tokens[i].key = key
        valueOf(key) == tokens[CHOOSE i \in 1..Len(tokens) : tokens[i].key = key].value
        spaced(v) == [k \in 1..Len(v) |-> IF v[k] = "_" THEN " " ELSE v[k]]
        field(key) == IF has(key) THEN spaced(valueOf(key)) ELSE Null
        typeKey == <<"t", "y", "p", "e">>
    IN  /\ parseOutput[1].type
             = IF has(typeKey) /\ valueOf(typeKey) \in ASSET_TYPE_KEYS THEN valueOf(typeKey)
               ELSE Null
        /\ parseOutput[1].operator = field(<<"o", "p", "e", "r", "a", "t", "o", "r">>)
        /\ parseOutput[1].region = field(<<"r", "e", "g", "i", "o", "n">>)
        /\ parseOutput[1].country = field(<<"c", "o", "u", "n", "t", "r", "y">>)
        /\ parseOutput[1].near = field(<<"n", "e", "a", "r">>)
        /\ parseOutput[1].radius = 50

\* C18: osmIdToAreaId(kind, id) is id + 3600000000 for a relation,
\* id + 2400000000 for a way and null for a node and every other kind; the
\* sums are exact beyond 32 bits (ids and sums are written in millions and
\* units: 3600000000 is 3600 millions).
C18_AreaIdRanges ==
  (arg.fn = "osmIdToAreaId" /\ out # <<>>) =>
    LET id == arg.osmId
    IN  /\ arg.osmType = "relation" => (out[1].hi = id.hi + 3600 /\ out[1].lo = id.lo)
        /\ arg.osmType = "way" => (out[1].hi = id.hi + 2400 /\ out[1].lo = id.lo)
        /\ arg.osmType \notin {"relation", "way"} => out[1] = NoArea
        /\ (arg.osmType = "relation" /\ id = Big(0, 123)) => out[1] = Big(3600, 123)

\* relation 694967296 has been converted: 3600000000 + 694967296 = 2^32
C18_Witness ==
  /\ arg.fn = "osmIdToAreaId"
  /\ out # <<>>
  /\ arg.osmType = "relation"
  /\ arg.osmId = Big(694, 967296)
  /\ out[1] = Big(4294, 967296)

RECURSIVE SumOver(_, _)
SumOver(f, keys) ==
  IF keys = {} THEN 0
  ELSE LET k == CHOOSE x \in keys : TRUE
       IN  f[k] + SumOver(f, keys \ {k})

\* C19: for every list of assets calculateStats gives total = the length of
\* the list, operators[o] = the number of assets of operator o (those
\* without an operator under "Unknown") and types[t] = the number of assets
\* of type t; both families of counts sum to total, and every permutation
\* of the list gives the same result.
C19_StatsCountTheAssets ==
  (arg.fn = "calculateStats" /\ out # <<>>) =>
    LET assets == arg.assets
        n == Len(assets)
        bucket(a) == IF a.operator = JsNull THEN "Unknown" ELSE a.operator
        stats == out[1]
    IN  /\ stats.total = n
        /\ \A i \in 1..n :
             /\ bucket(assets[i]) \in DOMAIN stats.operators
             /\ stats.operators[bucket(assets[i])]
                  = Cardinality({j \in 1..n : bucket(assets[j]) = bucket(assets[i])})
             /\ assets[i].type \in DOMAIN stats.types
             /\ stats.types[assets[i].type]
                  = Cardinality({j \in 1..n : assets[j].type = assets[i].type})
        /\ SumOver(stats.operators, DOMAIN stats.operators) = n
        /\ SumOver(stats.types, DOMAIN stats.types) = n
        /\ \A perm \in {f \in [1..n -> 1..n] : \A i, j \in 1..n : i # j => f[i] # f[j]} :
             calculateStats([i \in 1..n |-> assets[perm[i]]]) = stats

\* C20: within one request the stages run in the order parse, validate,
\* search-cache lookup, geo-cache lookup, geocode call, geometry, query
\* build, query execution, normalize/aggregate, search-cache store: no
\* endpoint is asked before the location is resolved, the search cache is
\* written only once the execution has ended with an answer, and a request
\* that succeeds after missing both caches has run every stage.
C20_StagesInOrder ==
  \A id \in Requests :
    LET r == req[id]
        s == r.stages
        at(name) == CHOOSE k \in 1..Len(StageOrder) : StageOrder[k] = name
        ran(name) == \E k \in 1..Len(s) : s[k] = name
    IN  /\ \A j, k \in 1..Len(s) : j < k => at(s[j]) < at(s[k])
        /\ ran("searchLookup") <=> r.searchReads = 1
        /\ ran("geoLookup") <=> r.geoReads = 1
        /\ ran("geocode") <=> r.geocoderCalls = 1
        /\ ran("execute") <=> r.contacted # <<>>
        /\ ran("searchStore") <=> r.searchWrites = 1
        /\ r.contacted # <<>> => (r.geoResult.found /\ ran("geometry") /\ ran("build"))
        /\ r.searchWrites = 1 =>
             (r.pc = "done" /\ r.lastAnswer.k = "ok" /\ r.inFlight = {} /\ ran("aggregate"))
        /\ (r.cause = "success" /\ r.geocoderCalls = 1) => s = StageOrder

\* a request has succeeded after missing both caches
C20_Witness ==
  \E id \in Requests :
    /\ req[id].pc = "done"
    /\ req[id].cause = "success"
    /\ req[id].geocoderCalls = 1
    /\ req[id].geoWrites = 1
    /\ req[id].searchWrites = 1
    /\ Len(req[id].contacted) > 1
    /\ req[id].stages = StageOrder

\* C21: a step calls the geocoder for a request only when the geo cache has
\* no entry for the location string of the request (near, else region, else
\* country, as parsed); a step that resolves the location stores the result
\* under that string and changes nothing else of the geo cache; a request
\* that arrives while the geo cache has an entry for its location string
\* calls no geocoder, whatever its type, operator and radius are.
C21_GeocoderOnlyOnGeoMiss ==
  [][\A id \in Requests :
       LET r == req[id]
           s == req'[id]
           location == IF Truthy(s.parsed.near) THEN s.parsed.near
                       ELSE IF Truthy(s.parsed.region) THEN s.parsed.region
                       ELSE s.parsed.country
       IN  /\ (r.geocoderCalls = 0 /\ s.geocoderCalls = 1)
                => /\ s.locationQuery = location
                   /\ location \notin DOMAIN geoCache
           /\ (r.pc = "idle" /\ s.pc # "idle" /\ s.geoReads = 1
                  /\ location \in DOMAIN geoCache)
                => /\ s.geocoderCalls = 0
                   /\ s.pc # "geocoding"
                   /\ s.geoResult = geoCache[location]
           /\ (r.geoWrites = 0 /\ s.geoWrites = 1)
                => /\ r.pc = "geocoding"
                   /\ s.geoResult.found
                   /\ DOMAIN geoCache' = DOMAIN geoCache \cup {location}
                   /\ geoCache'[location] = s.geoResult
                   /\ \A k \in DOMAIN geoCache \ {location} : geoCache'[k] = geoCache[k]
           /\ (geoCache' # geoCache)
                => (\E w \in Requests : req[w].geoWrites = 0 /\ req'[w].geoWrites = 1)]_vars

\* A request found the location that another request had resolved, under
\* another search key, and asked an endpoint without calling the geocoder
C21_Witness ==
  \E id, other \in Requests :
    /\ req[other].geoWrites = 1
    /\ req[id].geoReads = 1
    /\ req[id].geocoderCalls = 0
    /\ req[id].locationQuery = req[other].locationQuery
    /\ req[id].cacheKey # req[other].cacheKey
    /\ req[id].parsed.radius # req[other].parsed.radius
    /\ req[id].contacted # <<>>

\* C22: a step in which the geocoder answers a request with no candidate
\* ends the request with the 400 response LOCATION_NOT_FOUND, without any
\* request to an endpoint and without a change of either cache; a request
\* that arrives with a valid query while neither cache has an entry for it
\* calls the geocoder, also when the same text was not found before.
C22_NotFoundLeavesNoTrace ==
  [][\A id \in Requests :
       LET r == req[id]
           s == req'[id]
       IN  /\ (r.pc = "geocoding" /\ s.cause = "notfound")
                => /\ s.pc = "done"
                   /\ s.response.status = 400
                   /\ s.response.code = "LOCATION_NOT_FOUND"
                   /\ s.contacted = <<>>
                   /\ s.overpassQuery = <<>>
                   /\ s.geoWrites = 0
                   /\ s.searchWrites = 0
                   /\ geoCache' = geoCache
                   /\ searchCache' = searchCache
           /\ (r.pc = "idle" /\ s.pc # "idle" /\ s.searchReads = 1
                  /\ s.cacheKey \notin DOMAIN searchCache
                  /\ LocationQueryOf(s.parsed) \notin DOMAIN geoCache)
                => (s.pc = "geocoding" /\ s.geocoderCalls = 1)
           /\ s.cause = "notfound" <=> s.response.code = "LOCATION_NOT_FOUND"]_vars

\* The same text was not found twice, with a geocoder call each time, and
\* both caches are empty
C22_Witness ==
  \E id, other \in Requests :
    /\ id # other
    /\ req[id].cause = "notfound"
    /\ req[other].cause = "notfound"
    /\ req[id].body = req[other].body
    /\ req[id].geocoderCalls = 1
    /\ req[other].geocoderCalls = 1
    /\ req[id].lastAnswer = NoAnswer
    /\ geoCache = EmptyCache
    /\ searchCache = EmptyCache

\* C23: the handler gives neither the INSUFFICIENT_FILTERS nor the
\* MISSING_LOCATION response: a parsed query is rejected by validateQuery
\* with INVALID_QUERY, or it has a type or an operator and a near, region or
\* country and goes on to the query builder.
C23_DefensiveBranchesUnreachable ==
  (arg.fn = "Validated" /\ out # <<>>) =>
    LET parsed == arg.parsed
        r == out[1]
        set(f) == f # Null /\ f # <<>>
    IN  /\ r.response.code \notin {"INSUFFICIENT_FILTERS", "MISSING_LOCATION"}
        /\ r.response.code # "INVALID_QUERY"
             => /\ set(parsed.type) \/ set(parsed.operator)
                /\ set(parsed.near) \/ set(parsed.region) \/ set(parsed.country)
                /\ set(r.locationQuery)
                /\ r.geoResult.found
        /\ r.response.code = "INVALID_QUERY"
             <=> \/ ~set(parsed.type) /\ ~set(parsed.operator)
                 \/ ~set(parsed.near) /\ ~set(parsed.region) /\ ~set(parsed.country)

\* A query with an operator and a country only has passed both defensive
\* tests and asks the first endpoint
C23_Witness ==
  /\ arg.fn = "Validated"
  /\ out # <<>>
  /\ arg.parsed.type = Null
  /\ arg.parsed.operator = <<"x">>
  /\ arg.parsed.near = <<>>
  /\ arg.parsed.region = Null
  /\ arg.parsed.country = <<"x">>
  /\ out[1].pc = "fetching"
  /\ out[1].locationQuery = <<"x">>

\* C24: the location filter of the query that is executed is the area filter
\* exactly when the request has no near field and the resolved place is a way
\* or a relation with a usable id; otherwise it is the bounding box in south,
\* west, north, east order, computed from the resolved point and the parsed
\* radius for a near request and the geocoder's box otherwise.  With near and
\* region both given, near decides.
C24_LocationFilter ==
  (arg.fn = "Validated" /\ out # <<>> /\ out[1].pc = "fetching") =>
    LET parsed == arg.parsed
        place == arg.place
        near == parsed.near # Null /\ parsed.near # <<>>
        filter == out[1].overpassQuery[1].location
        box == place.boundingBox
        widening == IF place.lat = Lat60 THEN 2 ELSE 1
    IN  /\ filter.kind \in {"area", "bbox"}
        /\ filter.kind = "area"
             <=> /\ ~near
                 /\ place.osmType \in {"way", "relation"}
                 /\ place.osmId # Big(0, 0)
        /\ filter.kind = "area" =>
             filter.area = BigAdd(place.osmId,
                                  IF place.osmType = "relation" THEN Big(3600, 0) ELSE Big(2400, 0))
        /\ (filter.kind = "bbox" /\ near) =>
             filter.box = <<place.lat - parsed.radius, place.lon - parsed.radius * widening,
                            place.lat + parsed.radius, place.lon + parsed.radius * widening>>
        /\ (filter.kind = "bbox" /\ ~near) =>
             filter.box = <<box[1], box[3], box[2], box[4]>>
        /\ near => filter.kind = "bbox"
        /\ out[1].locationQuery =
             (IF near THEN parsed.near
              ELSE IF parsed.region # Null /\ parsed.region # <<>> THEN parsed.region
              ELSE parsed.country)

\* A request with near and region, resolved to a relation, was given the box
\* of 70 km around the point; its sides differ, so the order shows
C24_Witness ==
  /\ arg.fn = "Validated"
  /\ out # <<>>
  /\ out[1].pc = "fetching"
  /\ arg.parsed.near = <<"x">>
  /\ arg.parsed.region = <<"x">>
  /\ arg.parsed.radius = 70
  /\ arg.place = G_Relation
  /\ out[1].overpassQuery[1].location.kind = "bbox"
  /\ out[1].overpassQuery[1].location.box = <<-70, 8144, 70, 8284>>

\* C25: from the elements of a successful answer executeQuery returns one
\* asset per element that has coordinates of its own or a centroid, in the
\* order of the answer, and drops the others; the asset's id is
\* "<kind>/<id>", its name the first non-empty of the tags name, name:en, ref,
\* description and operator, else "Unnamed", its type is never empty and is
\* "infrastructure" when no rule matches, its operator the operator tag or
\* null.
C25_OneAssetPerLocatedElement ==
  (arg.fn = "NormalizeElements" /\ out # <<>>) =>
    LET Own(el) == "lat" \in DOMAIN el /\ "lon" \in DOMAIN el
        Usable(el) == Own(el) \/ "center" \in DOMAIN el
        located == SelectSeq(arg.elements, Usable)
        assets == out[1]
        nameTags == <<"name", "name:en", "ref", "description", "operator">>
        value(el, key) == IF "tags" \in DOMAIN el /\ key \in DOMAIN el.tags
                            THEN el.tags[key] ELSE ""
        named(el) == {n \in 1..Len(nameTags) : value(el, nameTags[n]) # ""}
        ruleKeys == {"tower:type", "building", "power", "aeroway", "man_made", "landuse",
                     "harbour", "amenity", "waterway"}
    IN  /\ Len(assets) = Len(located)
        /\ \A k \in 1..Len(located) :
             LET el == located[k]
                 asset == assets[k]
             IN  /\ asset.id = <<el.type, "/", el.id>>
                 /\ asset.lat = (IF Own(el) THEN el.lat ELSE el.center.lat)
                 /\ asset.lon = (IF Own(el) THEN el.lon ELSE el.center.lon)
                 /\ asset.name = (IF named(el) = {} THEN "Unnamed"
                                  ELSE value(el, nameTags[CHOOSE n \in named(el) :
                                                            \A m \in named(el) : n <= m]))
                 /\ asset.name # ""
                 /\ asset.type # <<>>
                 /\ \A n \in 1..Len(asset.type) : asset.type[n] # ""
                 /\ (\A key \in ruleKeys : value(el, key) = "")
                      => asset.type = <<"infrastructure">>
                 /\ asset.operator = (IF value(el, "operator") # "" THEN value(el, "operator")
                                      ELSE JsNull)

\* An answer of an element without coordinates and a way with a centroid and
\* a ref tag only: one asset, the way's
C25_Witness ==
  /\ arg.fn = "NormalizeElements"
  /\ out # <<>>
  /\ Len(arg.elements) = 2
  /\ arg.elements[1] = E_NoCoordinates
  /\ arg.elements[2].id = 2
  /\ Len(out[1]) = 1
  /\ out[1][1].id = <<"way", "/", 2>>
  /\ out[1][1].name = "R1"
  /\ out[1][1].type = <<"generator">>
  /\ out[1][1].operator = JsNull
  /\ out[1][1].lat = 7

\* C26: requests with the same cache key are not de-duplicated: both may miss
\* the search cache, call the geocoder and ask an endpoint.  Each request
\* that is answered from an endpoint returns the complete SearchResult of its
\* own answer, and an entry of the search cache is the complete result of one
\* of the requests answered for its key, the one answered last.
C26_NoSingleFlight ==
  /\ \A id \in Requests :
       LET r == req[id]
       IN  r.cause = "success"
             => /\ r.response.status = 200
                /\ CompleteResult(r, r.response.result[1])
                /\ r.searchReads = 1
                /\ r.searchWrites = 1
                /\ r.contacted # <<>>
  /\ \A k \in DOMAIN searchCache :
       LET stored == {j \in 1..Len(okLog) :
                        okLog[j].cause = "success" /\ okLog[j].fields = SixFields(k)}
       IN  /\ \E id \in Requests :
                /\ req[id].cause = "success"
                /\ req[id].cacheKey = k
                /\ searchCache[k] = req[id].response.result[1]
           /\ stored # {}
           /\ searchCache[k] = okLog[Latest(stored)].result
  /\ \A id, other \in Requests :
       (id # other /\ req[id].pc = "fetching" /\ req[other].pc = "fetching"
          /\ req[id].cacheKey = req[other].cacheKey)
         => /\ req[id].contacted # <<>>
            /\ req[other].contacted # <<>>
            /\ req[id].inFlight # {}
            /\ req[other].inFlight # {}

\* Two requests with one cache key have both missed both caches, have both
\* called the geocoder and are both waiting for an endpoint
C26_Witness ==
  \E id, other \in Requests :
    /\ id # other
    /\ req[id].pc = "fetching"
    /\ req[other].pc = "fetching"
    /\ req[id].cacheKey = req[other].cacheKey
    /\ req[id].body.query # req[other].body.query
    /\ req[id].searchReads = 1
    /\ req[other].searchReads = 1
    /\ req[id].geocoderCalls = 1
    /\ req[other].geocoderCalls = 1
    /\ req[id].inFlight # {}
    /\ req[other].inFlight # {}
    /\ searchCache = EmptyCache

\* C27: every type parseQuery returns is null or a key of the taxonomy, so
\* for a query that passes validation the query builder raises nothing and
\* no request ends in the internal-error response through the builder.
C27_ParsedTypeIsATaxonomyKey ==
  \A id \in Requests :
    LET r == req[id]
    IN  /\ r.parsed.type = Null \/ r.parsed.type \in ASSET_TYPE_KEYS
        /\ (r.pc = "done" /\ r.stages # <<>> /\ r.stages[Len(r.stages)] = "build")
             => /\ r.cause # "exception"
                /\ r.response.code # "INTERNAL_ERROR"

\* C28: an endpoint that answers with a success status and a body that
\* cannot be parsed has failed: while endpoints remain the next one is asked,
\* after the last one the parse failure is the error thrown, and no assets
\* are returned from such an answer.
C28_UnparsableBodyIsAFailure ==
  LET n == Len(exec.outcomes)
      all == Len(OVERPASS_APIS)
      unparsable == n >= 1 /\ exec.outcomes[n].k = "badbody"
      parseFailure == <<"Unexpected", "token", "<", "in", "JSON">>
  IN  /\ unparsable
           => /\ exec.outcomes[n].status = 200
              /\ exec.pc # "returned"
              /\ exec.assets = <<>>
              /\ exec.lastError.message = parseFailure
      /\ (unparsable /\ n < all)
           => /\ exec.pc = "fetching"
              /\ exec.i = n + 1
              /\ exec.contacted = UpTo(n + 1)
              /\ exec.inFlight = {n + 1}
      /\ (unparsable /\ n = all) => exec.pc = "thrown"
      /\ exec.pc = "returned"
           => /\ exec.outcomes[n].k = "ok"
              /\ \A j \in 1..n : exec.outcomes[j].k = "badbody" => j < n

\* An unparsable body at the first endpoint, status 500 at the second, an
\* unparsable body at the last: the parse failure is thrown
C28_Witness ==
  /\ exec.pc = "thrown"
  /\ Len(exec.outcomes) = 3
  /\ exec.outcomes[1].k = "badbody"
  /\ exec.outcomes[2].status = 500
  /\ exec.outcomes[3].k = "badbody"
  /\ exec.contacted = <<1, 2, 3>>
  /\ exec.lastError.message = <<"Unexpected", "token", "<", "in", "JSON">>
  /\ exec.assets = <<>>

\* C29: when the location was resolved and every endpoint has failed, the
\* request ends with an error, the search cache is as it was and the geo
\* cache keeps the entry of the location string; the same request, made
\* again, calls no geocoder and asks the first endpoint at once.
C29_GeoEntrySurvivesFailure ==
  [][\A id \in Requests :
       LET r == req[id]
           s == req'[id]
       IN  /\ (r.pc = "fetching" /\ s.cause = "exhausted")
                => /\ s.pc = "done"
                   /\ s.response.status >= 400
                   /\ s.response.result = <<>>
                   /\ s.contacted = UpTo(Len(OVERPASS_APIS))
                   /\ s.geoResult.found
                   /\ s.searchWrites = 0
                   /\ searchCache' = searchCache
                   /\ geoCache' = geoCache
                   /\ s.locationQuery \in DOMAIN geoCache'
           /\ (r.pc = "idle" /\ s.pc # "idle"
                 /\ s.cacheKey \notin DOMAIN searchCache
                 /\ \E other \in Requests :
                      req[other].cause = "exhausted" /\ req[other].body = s.body)
                => /\ s.pc = "fetching"
                   /\ s.geocoderCalls = 0
                   /\ s.geoReads = 1
                   /\ s.geoResult = geoCache[s.locationQuery]
                   /\ s.contacted = <<1>>
                   /\ s.steps = 1
                   /\ geoCache' = geoCache]_vars

\* The first request called the geocoder, stored the place and failed at all
\* three endpoints; the second, with the same text, waits for the first
\* endpoint without a geocoder call
C29_Witness ==
  \E id, other \in Requests :
    /\ id # other
    /\ req[other].cause = "exhausted"
    /\ req[other].geocoderCalls = 1
    /\ req[other].geoWrites = 1
    /\ req[other].contacted = <<1, 2, 3>>
    /\ req[id].body = req[other].body
    /\ req[id].pc = "fetching"
    /\ req[id].steps = 1
    /\ req[id].geocoderCalls = 0
    /\ req[id].contacted = <<1>>
    /\ req[id].geoResult = geoCache[req[id].locationQuery]
    /\ searchCache = EmptyCache

\* C30: when the calls of the geocoder do not overlap, every call is sent at
\* least 1000 ms after the timestamp the previous call recorded and records
\* its own send time in the shared timestamp, the timestamp never decreases,
\* a call waits at most 1000 ms, and every call that waits is sent in the end.
C30_SerialCallsAreSpaced ==
  /\ [][/\ \A c \in Calls :
            /\ (call[c].pc # "sent" /\ call'[c].pc = "sent")
                 => /\ now - lastNominatimRequest >= 1000
                    /\ call'[c].sentAt = now
                    /\ lastNominatimRequest' = now
                    /\ \A d \in Calls :
                         call[d].pc = "sent" => call'[c].sentAt - call[d].sentAt >= 1000
            /\ (call[c].pc = "idle" /\ call'[c].pc = "waiting")
                 => /\ call'[c].wakeAt - call'[c].enteredAt >= 1
                    /\ call'[c].wakeAt - call'[c].enteredAt <= 1000
                    /\ call'[c].wakeAt = lastNominatimRequest + 1000
                    /\ lastNominatimRequest' = lastNominatimRequest
         /\ lastNominatimRequest' >= lastNominatimRequest]_vars
  /\ \A c \in Calls : (call[c].pc = "waiting") ~> (call[c].pc = "sent")

\* A call entered 250 ms after the one before it had been sent, waited 750 ms
\* and was sent, and the shared timestamp is its send time
C30_Witness ==
  \E c, d \in Calls :
    /\ call[d].pc = "sent"
    /\ call[c].pc = "sent"
    /\ call[c].enteredAt = call[d].sentAt + 250
    /\ call[c].wakeAt = call[d].sentAt + 1000
    /\ call[c].sentAt = call[c].wakeAt
    /\ lastNominatimRequest = call[c].sentAt
=============================================================================
